---- MODULE Spec2Model ----
(***************************************************************************)
(* A model of the bootstrap and memory-management core of the rv7 kernel:  *)
(* the physical frame allocator (sys/vm/vm_map.c, second half), the spin   *)
(* lock (sys/arch/amd64/cpu/spinlock.c), the local APIC driver             *)
(* (sys/arch/amd64/cpu/lapic.c), the application-processor bring-up with   *)
(* its idle threads (sys/arch/amd64/cpu/mp.c, sys/os/os_sched.c) and the   *)
(* fork of an address space (mu_pmap_forkvas).                             *)
(***************************************************************************)
EXTENDS Integers, Sequences, FiniteSets, TLC

VARIABLES
    phase,          \* "boot" before vm_phys_init, "run" after, "panic" if it halted
    memmap0,        \* the boot memory map as the loader handed it over
    memmap,         \* memmap_resp->entries as vm_alloc_bitmap leaves them
    bitmap_base,    \* physical address of the bitmap storage (-1: NULL)
    bitmap_size,    \* bytes of bitmap storage
    highest_usable, \* end of the highest usable entry
    bitmap,         \* the bits, indexed by frame number
    last_index,     \* the scan cursor
    held,           \* ranges handed out by vm_phys_alloc and not yet freed
    usable0,        \* number of clear bits when vm_phys_init returned
    lastop,         \* the last allocator call: arguments, result, bitmap before
    lockword,       \* the lock words: bitmap_lock and mount_lock.lock
    cpu,            \* per processor: where it is in a call that takes a lock
    cpu_if,         \* per processor: RFLAGS.IF, interrupts enabled
    has_x2apic,     \* mcb->has_x2apic of the bootstrap processor
    bsp_id,         \* the APIC ID the bootstrap processor's controller holds
    madt,           \* the entries of the MADT, in table order
    bsp,            \* the bootstrap processor inside cpu_start_aps
    buda,           \* the bring-up descriptor at AP_BUDA_PADDR
    bs,             \* the bootstrap address space (struct ap_bootspace)
    icr,            \* the interrupt command register of the bootstrap processor
    log,            \* what happened since cpu_lapic_cb chose its target
    ipicall,        \* the last lapic_send_ipi: register accesses and result
    ipi_reqs,       \* every request cpu_lapic_cb passed to lapic_send_ipi
    signals,        \* every signal the controller put on the bus
    stacks,         \* the stacks allocated: APIC ID and frame
    ap,             \* per APIC ID: where that processor is
    ap_count,       \* secondaries the controller counted as up
    aps_up,         \* secondaries that entered cpu_lm_entry
    cpu_list,       \* the processor table
    cr3,            \* CR3 of the processor that calls the pmap functions
    ptmem,          \* the frames read and written as page tables
    fork,           \* the last mu_pmap_forkvas call: result and table
    vas,            \* the caller's struct mmu_vas, handed to the pmap calls
    mapcall,        \* the last mu_pmap_map / mu_pmap_unmap call
    tlb             \* the translations the calling processor has cached

physvars == <<phase, memmap0, memmap, bitmap_base, bitmap_size,
              highest_usable, bitmap, last_index, held, usable0, lastop>>

lockvars == <<lockword, cpu, cpu_if>>

mpvars == <<has_x2apic, bsp_id, madt, bsp, buda, bs, icr, log, ipicall,
            ipi_reqs, signals, stacks, ap, ap_count, aps_up, cpu_list>>

pmapvars == <<cr3, ptmem, fork, vas, mapcall, tlb>>

vars == <<physvars, lockvars, mpvars, pmapvars>>

----------------------------------------------------------------------------
(* Bounds of the model *)

\* processors that call into the allocator at the same time
NCpus == 2

\* largest count passed to vm_phys_alloc
MaxCount == 2
\* largest number of ranges the callers hold at once
MaxHeld == 3
\* end of the modelled physical memory, in pages
TopPages == 10
\* the parallel runs: usable frames of the memory maps, largest count, and
\* largest number of ranges held at once
LockFrames == 2
LockMaxCount == 1
LockMaxHeld == 1
\* entries of the longest MADT
MaxMadt == 3
\* frames vm_kalloc_init took for the kernel heap before the bring-up
HeapPages == 1
\* calls of mu_pmap_map and mu_pmap_unmap in one run
MaxMaps == 2
\* largest pid the first idle thread can get
MaxPid == 2
\* slots of cpu_list: the source builds with 256, the runs with a table
\* small enough for the walk to fill it
MAX_CPUS == 3

----------------------------------------------------------------------------
(* Program constants *)

PAGESIZE == 4096
BYTE_BITS == 8
MEM_USABLE == 0
MEM_RESERVED == 1
AP_BUA_PADDR == 32768
AP_BUDA_PADDR == 36864
APIC_TYPE_LOCAL_APIC == 0
IPI_SHAND_NONE == 0
IPI_SHAND_SELF == 1
IPI_DELMOD_INIT == 5
IPI_DELMOD_STARTUP == 6

\* frames the bitmap variable carries: the map's frames and what a scan that
\* starts on the last frame can still mark
NBits == TopPages + 1 + MaxCount

Frames == 0..(NBits - 1)

ALIGN_DOWN(v, a) == v - (v % a)

ALIGN_UP(v, a) == ((v + a - 1) \div a) * a

Max(a, b) == IF a >= b THEN a ELSE b

(* bitwise or / and of two naturals                                         *)
RECURSIVE BitOr(_, _)
BitOr(a, b) ==
    IF a = 0 THEN b
    ELSE IF b = 0 THEN a
    ELSE (IF a % 2 = 1 \/ b % 2 = 1 THEN 1 ELSE 0)
         + 2 * BitOr(a \div 2, b \div 2)

RECURSIVE BitAnd(_, _)
BitAnd(a, b) ==
    IF a = 0 \/ b = 0 THEN 0
    ELSE (IF a % 2 = 1 /\ b % 2 = 1 THEN 1 ELSE 0)
         + 2 * BitAnd(a \div 2, b \div 2)

ISSET(v, f) == BitAnd(v, f) /= 0

----------------------------------------------------------------------------
(* bitmap_set_range: set or clear every frame of [start, end) after         *)
(* widening the range to page boundaries                                    *)

RangeFrames(start, end) ==
    { f \in Frames : ALIGN_DOWN(start, PAGESIZE) \div PAGESIZE <= f
                     /\ f < ALIGN_UP(end, PAGESIZE) \div PAGESIZE }

bitmap_set_range(bm, start, end, alloc) ==
    [f \in Frames |-> IF f \in RangeFrames(start, end)
                      THEN (IF alloc THEN 1 ELSE 0)
                      ELSE bm[f]]

----------------------------------------------------------------------------
(* The boot memory map: three adjacent entries starting at address 0.  As  *)
(* the loader guarantees, page 0 is never usable and usable entries begin   *)
(* and end on page boundaries.                                              *)

Cut1 == {PAGESIZE, 2 * PAGESIZE}

Cut2 == {BYTE_BITS * PAGESIZE}

Cut3 == {TopPages * PAGESIZE}

MemTypes == {MEM_USABLE, MEM_RESERVED}

Entry(b, e, t) == [base |-> b, length |-> e - b, type |-> t]

MemMaps ==
    { <<Entry(0, c1, MEM_RESERVED), Entry(c1, c2, t2), Entry(c2, c3, t3)>> :
        c1 \in Cut1, c2 \in Cut2, c3 \in Cut3,
        t2 \in MemTypes, t3 \in MemTypes }

----------------------------------------------------------------------------
(* vm_probe: the highest usable address and the bitmap size in bytes        *)

RECURSIVE ProbeHighest(_, _, _)
ProbeHighest(map, i, hi) ==
    IF i > Len(map) THEN hi
    ELSE IF map[i].type /= MEM_USABLE THEN ProbeHighest(map, i + 1, hi)
    ELSE ProbeHighest(map, i + 1, Max(hi, map[i].base + map[i].length))

ProbeBitmapSize(hi) == (hi \div PAGESIZE) \div BYTE_BITS

(* vm_alloc_bitmap: the first usable entry the bitmap fits in, 0 if none   *)
RECURSIVE FindBitmapEntry(_, _, _)
FindBitmapEntry(map, i, size) ==
    IF i > Len(map) THEN 0
    ELSE IF map[i].type = MEM_USABLE /\ map[i].length >= size THEN i
    ELSE FindBitmapEntry(map, i + 1, size)

CarveEntry(map, k, size) ==
    [map EXCEPT ![k] = [base |-> map[k].base + size,
                        length |-> map[k].length - size,
                        type |-> map[k].type]]

(* memset(bitmap, 0xFF, bitmap_size): the bits of the storage are set; the  *)
(* bits past it, which the scan reads all the same up to max_index, keep    *)
(* whatever the memory behind the storage held (junk)                       *)
MemsetBitmap(size, junk) ==
    [f \in Frames |-> IF f < size * BYTE_BITS THEN 1
                      ELSE IF f \in junk THEN 1 ELSE 0]

(* vm_fill_bitmap: clear the range of every usable entry                    *)
RECURSIVE vm_fill_bitmap(_, _, _)
vm_fill_bitmap(bm, map, i) ==
    IF i > Len(map) THEN bm
    ELSE IF map[i].type /= MEM_USABLE THEN vm_fill_bitmap(bm, map, i + 1)
    ELSE vm_fill_bitmap(
             bitmap_set_range(bm, map[i].base,
                              map[i].base + map[i].length, FALSE),
             map, i + 1)

ClearBits(bm, max_index) == { f \in Frames : f < max_index /\ bm[f] = 0 }

NoOp == [op |-> "none", count |-> 0, base |-> 0, scans |-> 0,
         before |-> <<>>, seen |-> <<>>, roundtrip |-> FALSE]

----------------------------------------------------------------------------
(* __vm_phys_alloc: the scan from the cursor.  frames_found counts every    *)
(* clear bit seen since the scan began; index_start is the first clear bit  *)
(* since the last set bit.  The result is index_start when the loop stops.  *)

RECURSIVE ScanLoop(_, _, _, _, _, _)
ScanLoop(bm, i, max_index, count, index_start, frames_found) ==
    IF i >= max_index THEN index_start
    ELSE IF bm[i] = 0
         THEN LET s == IF index_start < 0 THEN i ELSE index_start
              IN  IF frames_found + 1 >= count THEN s
                  ELSE ScanLoop(bm, i + 1, max_index, count, s,
                                frames_found + 1)
         ELSE ScanLoop(bm, i + 1, max_index, count, -1, frames_found)

ScanStart(bm, cursor, max_index, count) ==
    ScanLoop(bm, cursor, max_index, count, -1, 0)

(* the bitmap after one __vm_phys_alloc whose scan ended on index_start     *)
ScanMark(bm, index_start, count) ==
    IF index_start < 0 THEN bm
    ELSE bitmap_set_range(bm, index_start * PAGESIZE,
                          index_start * PAGESIZE + count * PAGESIZE, TRUE)

ScanResult(index_start) ==
    IF index_start < 0 THEN 0 ELSE index_start * PAGESIZE

MaxIndex == highest_usable \div PAGESIZE

(* vm_phys_alloc(count): one scan, and a second one from 0 if the first     *)
(* returned 0.  Returns the record of the call.                             *)
vm_phys_alloc(bm, cursor, max_index, count) ==
    LET s1 == ScanStart(bm, cursor, max_index, count)
        bm1 == ScanMark(bm, s1, count)
        b1 == ScanResult(s1)
        s2 == ScanStart(bm1, 0, max_index, count)
        bm2 == ScanMark(bm1, s2, count)
        b2 == ScanResult(s2)
    IN  IF b1 /= 0
        THEN [base |-> b1, bitmap |-> bm1, cursor |-> cursor, scans |-> 1,
              seen |-> bm]
        ELSE [base |-> b2, bitmap |-> bm2, cursor |-> 0, scans |-> 2,
              seen |-> bm1]

(* vm_phys_free(base, count)                                                *)
vm_phys_free(bm, base, count) ==
    bitmap_set_range(bm, ALIGN_DOWN(base, PAGESIZE),
                     ALIGN_DOWN(base, PAGESIZE) + count * PAGESIZE, FALSE)

----------------------------------------------------------------------------
(* The processors and the two locks of the model                            *)

Cpus == 1..NCpus

LockNames == {"bitmap_lock", "mount_lock"}

IdleCpu == [pc |-> "idle", op |-> "none", lock |-> "none", inttog |-> FALSE,
            count |-> 0, base |-> 0, rax |-> 0, if0 |-> FALSE]

----------------------------------------------------------------------------
(* The allocator as a state machine: boot, then calls of the two entry      *)
(* points by callers that free only what they were given                    *)

(* no address space is looked at: the state of the runs that call no pmap   *)
(* function                                                                 *)
NoSend == [acc |-> <<>>, ret |-> "none"]

NoFork == [ret |-> "none", paddr |-> 0, src |-> <<>>, vas0 |-> [cr3 |-> 0]]

NoMap == [op |-> "none", ret |-> "none", n |-> 0, root |-> 0, pa |-> 0,
          va |-> <<0, 0, 0, 0>>, prot |-> {}, tbl |-> -1, made |-> <<>>,
          was |-> 0, before |-> <<>>]

PmapIdle ==
    /\ cr3 = 0
    /\ ptmem = <<>>
    /\ fork = NoFork
    /\ vas = [cr3 |-> 0]
    /\ mapcall = NoMap
    /\ tlb = {}

(* the callers' holdings, kept in address order                            *)
Before(a, b) == a.base < b.base \/ (a.base = b.base /\ a.count <= b.count)

Hold(s, h) ==
    LET k == Cardinality({ j \in DOMAIN s : Before(s[j], h) })
    IN  [j \in 1..(Len(s) + 1) |->
            IF j <= k THEN s[j] ELSE IF j = k + 1 THEN h ELSE s[j - 1]]

RemoveAt(s, i) == [j \in 1..(Len(s) - 1) |-> IF j < i THEN s[j] ELSE s[j + 1]]

MpIdle ==
    /\ has_x2apic = FALSE
    /\ bsp_id = 0
    /\ madt = <<>>
    /\ bsp = [pc |-> "off"]
    /\ buda = [cr3 |-> 0, rsp |-> 0, lm_entry |-> 0, is_booted |-> 0]
    /\ bs = [pml4 |-> 0, pml3 |-> 0, pml2 |-> 0, pml1 |-> 0]
    /\ icr = [dest |-> 0, vector |-> 0, delmod |-> 0, logical |-> 0,
              shorthand |-> 0, pending |-> 0]
    /\ log = <<>>
    /\ ipicall = NoSend
    /\ ipi_reqs = {}
    /\ signals = {}
    /\ stacks = {}
    /\ ap = <<>>
    /\ ap_count = 0
    /\ aps_up = 0
    /\ cpu_list = <<>>

LockIdle ==
    /\ lockword = [l \in LockNames |-> 0]
    /\ cpu = [p \in Cpus |-> IdleCpu]
    /\ cpu_if = [p \in Cpus |-> FALSE]

PhysInit ==
    /\ phase = "boot"
    /\ memmap0 \in MemMaps
    /\ memmap = memmap0
    /\ bitmap_base = -1
    /\ bitmap_size = 0
    /\ highest_usable = 0
    /\ bitmap = [f \in Frames |-> 0]
    /\ last_index = 0
    /\ held = <<>>
    /\ usable0 = 0
    /\ lastop = NoOp
    /\ LockIdle
    /\ PmapIdle
    /\ MpIdle

(* vm_phys_init -> vm_probe -> vm_alloc_bitmap -> vm_fill_bitmap            *)
VmPhysInit ==
    /\ phase = "boot"
    /\ LET hi == ProbeHighest(memmap, 1, 0)
           size == ProbeBitmapSize(hi)
           k == FindBitmapEntry(memmap, 1, size)
       IN  /\ k /= 0
           /\ \E junk \in SUBSET { f \in Frames : size * BYTE_BITS <= f
                                                  /\ f < hi \div PAGESIZE } :
                LET map1 == CarveEntry(memmap, k, size)
                    bm == vm_fill_bitmap(MemsetBitmap(size, junk), map1, 1)
                IN  /\ memmap' = map1
                    /\ bitmap' = bm
                    /\ usable0' = Cardinality(ClearBits(bm, hi \div PAGESIZE))
           /\ highest_usable' = hi
           /\ bitmap_size' = size
           /\ bitmap_base' = memmap[k].base
    /\ phase' = "run"
    /\ UNCHANGED <<memmap0, last_index, held, lastop>>
    /\ UNCHANGED <<lockvars, mpvars, pmapvars>>

(* vm_alloc_bitmap finds no usable entry: panic                             *)
VmPhysInitPanic ==
    /\ phase = "boot"
    /\ LET hi == ProbeHighest(memmap, 1, 0)
       IN  FindBitmapEntry(memmap, 1, ProbeBitmapSize(hi)) = 0
    /\ phase' = "panic"
    /\ UNCHANGED <<memmap0, memmap, bitmap_base, bitmap_size, highest_usable,
                   bitmap, last_index, held, usable0, lastop>>
    /\ UNCHANGED <<lockvars, mpvars, pmapvars>>

Alloc(count) ==
    /\ phase = "run"
    /\ Len(held) < MaxHeld
    /\ \E r \in {vm_phys_alloc(bitmap, last_index, MaxIndex, count)} :
           /\ bitmap' = r.bitmap
           /\ last_index' = r.cursor
           /\ held' = IF r.base = 0 THEN held
                      ELSE Hold(held, [base |-> r.base, count |-> count])
           /\ lastop' = [op |-> "alloc", count |-> count, base |-> r.base,
                         scans |-> r.scans, before |-> bitmap,
                         seen |-> r.seen, roundtrip |-> FALSE]
    /\ UNCHANGED <<phase, memmap0, memmap, bitmap_base, bitmap_size,
                   highest_usable, usable0>>
    /\ UNCHANGED <<lockvars, mpvars, pmapvars>>

(* the range held[i] is the one the call just before returned              *)
JustAllocated(i) ==
    /\ lastop.op = "alloc"
    /\ lastop.base = held[i].base
    /\ lastop.count = held[i].count

Free(i) ==
    /\ phase = "run"
    /\ i \in DOMAIN held
    /\ bitmap' = vm_phys_free(bitmap, held[i].base, held[i].count)
    /\ held' = RemoveAt(held, i)
    /\ lastop' = [op |-> "free", count |-> 0, base |-> 0, scans |-> 0,
                  before |-> IF JustAllocated(i) THEN lastop.before
                             ELSE <<>>,
                  seen |-> <<>>, roundtrip |-> JustAllocated(i)]
    /\ UNCHANGED <<phase, memmap0, memmap, bitmap_base, bitmap_size,
                   highest_usable, last_index, usable0>>
    /\ UNCHANGED <<lockvars, mpvars, pmapvars>>

PhysNext ==
    \/ VmPhysInit
    \/ VmPhysInitPanic
    \/ \E count \in 1..MaxCount : Alloc(count)
    \/ \E i \in 1..MaxHeld : Free(i)

SpecPhys == PhysInit /\ [][PhysNext]_vars

----------------------------------------------------------------------------
(* The spin lock and the processors that call vm_phys_alloc, vm_phys_free   *)
(* and mount in parallel.  Each instruction that touches shared state is    *)
(* one step.                                                                *)

(* xchg (%0), %rax with rax = 1: the lock word becomes 1, rax its old value *)
XchgAcq(word) == [word |-> 1, rax |-> word]

(* or %rax, %rax; jnz 1b: the loop is left when the old value was 0         *)
SpinDone_NoTest(rax) == TRUE

SpinDone(rax) == rax = 0

(* the first instruction of the locked body of each caller                  *)
BodyPc(op) ==
    CASE op = "alloc" -> "first"
      [] op = "free" -> "clear"
      [] op = "mount" -> "insert"

(* the state vm_phys_init leaves for the boot memory map                    *)
Booted(map) ==
    LET hi == ProbeHighest(map, 1, 0)
        size == ProbeBitmapSize(hi)
        k == FindBitmapEntry(map, 1, size)
        map1 == CarveEntry(map, k, size)
    IN  [memmap |-> map1, highest_usable |-> hi, bitmap_size |-> size,
         bitmap_base |-> map[k].base,
         bitmap |-> vm_fill_bitmap(MemsetBitmap(size, {}), map1, 1)]

(* the maps of the parallel runs: a few usable frames below the bring-up   *)
(* pages, so that the callers compete for them                              *)
LockMaps ==
    { <<Entry(0, (BYTE_BITS - n) * PAGESIZE, MEM_RESERVED),
        Entry((BYTE_BITS - n) * PAGESIZE, c2, MEM_USABLE),
        Entry(c2, c3, MEM_RESERVED)>> :
        n \in 1..LockFrames, c2 \in Cut2, c3 \in Cut3 }

LockInit ==
    /\ phase = "run"
    /\ memmap0 \in LockMaps
    /\ memmap = Booted(memmap0).memmap
    /\ bitmap_base = Booted(memmap0).bitmap_base
    /\ bitmap_size = Booted(memmap0).bitmap_size
    /\ highest_usable = Booted(memmap0).highest_usable
    /\ bitmap = Booted(memmap0).bitmap
    /\ last_index = 0
    /\ held = <<>>
    /\ usable0 = Cardinality(ClearBits(bitmap, MaxIndex))
    /\ lastop = NoOp
    /\ LockIdle
    /\ PmapIdle
    /\ MpIdle

(* vm_phys_alloc(count) is called: mu_spinlock_acq(&bitmap_lock, 0)         *)
CallAlloc(p, count) ==
    /\ cpu[p].pc = "idle"
    /\ Len(held) < LockMaxHeld
    /\ cpu' = [cpu EXCEPT ![p] = [pc |-> "acq", op |-> "alloc",
                                  lock |-> "bitmap_lock", inttog |-> FALSE,
                                  count |-> count, base |-> 0, rax |-> 0,
                                  if0 |-> cpu_if[p]]]
    /\ UNCHANGED <<physvars, lockword, cpu_if, mpvars, pmapvars>>

(* vm_phys_free(base, count) is called by the holder of a range             *)
CallFree(p, i) ==
    /\ cpu[p].pc = "idle"
    /\ i \in DOMAIN held
    /\ cpu' = [cpu EXCEPT ![p] = [pc |-> "acq", op |-> "free",
                                  lock |-> "bitmap_lock", inttog |-> FALSE,
                                  count |-> held[i].count,
                                  base |-> ALIGN_DOWN(held[i].base, PAGESIZE),
                                  rax |-> 0, if0 |-> cpu_if[p]]]
    /\ held' = RemoveAt(held, i)
    /\ UNCHANGED <<phase, memmap0, memmap, bitmap_base, bitmap_size,
                   highest_usable, bitmap, last_index, usable0, lastop>>
    /\ UNCHANGED <<lockword, cpu_if, mpvars, pmapvars>>

(* mount() reaches spinlock_acquire(&mount_lock, true)                      *)
CallMount(p) ==
    /\ cpu[p].pc = "idle"
    /\ cpu' = [cpu EXCEPT ![p] = [pc |-> "acq", op |-> "mount",
                                  lock |-> "mount_lock", inttog |-> TRUE,
                                  count |-> 0, base |-> 0, rax |-> 0,
                                  if0 |-> cpu_if[p]]]
    /\ UNCHANGED <<physvars, lockword, cpu_if, mpvars, pmapvars>>

(* mu_spinlock_acq: cli when SPINLOCK_INTTOG is set                         *)
AcqCli(p) ==
    /\ cpu[p].pc = "acq"
    /\ cpu_if' = IF cpu[p].inttog THEN [cpu_if EXCEPT ![p] = FALSE]
                 ELSE cpu_if
    /\ cpu' = [cpu EXCEPT ![p].pc = "spin"]
    /\ UNCHANGED <<physvars, lockword, mpvars, pmapvars>>

(* mu_spinlock_acq: one turn of the xchg loop                               *)
AcqSpin(p) ==
    /\ cpu[p].pc = "spin"
    /\ LET x == XchgAcq(lockword[cpu[p].lock])
       IN  /\ lockword' = [lockword EXCEPT ![cpu[p].lock] = x.word]
           /\ cpu' = [cpu EXCEPT ![p].rax = x.rax,
                                 ![p].pc = IF SpinDone(x.rax)
                                           THEN BodyPc(cpu[p].op)
                                           ELSE "spin"]
    /\ UNCHANGED <<physvars, cpu_if, mpvars, pmapvars>>

(* vm_phys_alloc: base = __vm_phys_alloc(count)                             *)
AllocFirst(p) ==
    /\ cpu[p].pc = "first"
    /\ LET s1 == ScanStart(bitmap, last_index, MaxIndex, cpu[p].count)
       IN  /\ bitmap' = ScanMark(bitmap, s1, cpu[p].count)
           /\ cpu' = [cpu EXCEPT ![p].base = ScanResult(s1),
                                 ![p].pc = IF ScanResult(s1) = 0
                                           THEN "retry" ELSE "rel"]
    /\ UNCHANGED <<phase, memmap0, memmap, bitmap_base, bitmap_size,
                   highest_usable, last_index, held, usable0, lastop>>
    /\ UNCHANGED <<lockword, cpu_if, mpvars, pmapvars>>

(* vm_phys_alloc: last_index = 0; base = __vm_phys_alloc(count)             *)
AllocRetry(p) ==
    /\ cpu[p].pc = "retry"
    /\ LET s2 == ScanStart(bitmap, 0, MaxIndex, cpu[p].count)
       IN  /\ bitmap' = ScanMark(bitmap, s2, cpu[p].count)
           /\ cpu' = [cpu EXCEPT ![p].base = ScanResult(s2),
                                 ![p].pc = "rel"]
    /\ last_index' = 0
    /\ UNCHANGED <<phase, memmap0, memmap, bitmap_base, bitmap_size,
                   highest_usable, held, usable0, lastop>>
    /\ UNCHANGED <<lockword, cpu_if, mpvars, pmapvars>>

(* vm_phys_free: bitmap_set_range(base, end, false)                         *)
FreeBody(p) ==
    /\ cpu[p].pc = "clear"
    /\ bitmap' = bitmap_set_range(bitmap, cpu[p].base,
                                  cpu[p].base + cpu[p].count * PAGESIZE,
                                  FALSE)
    /\ cpu' = [cpu EXCEPT ![p].pc = "rel"]
    /\ UNCHANGED <<phase, memmap0, memmap, bitmap_base, bitmap_size,
                   highest_usable, last_index, held, usable0, lastop>>
    /\ UNCHANGED <<lockword, cpu_if, mpvars, pmapvars>>

(* mount: TAILQ_INSERT_TAIL(&mountlist, mp, link)                           *)
MountBody(p) ==
    /\ cpu[p].pc = "insert"
    /\ cpu' = [cpu EXCEPT ![p].pc = "rel"]
    /\ UNCHANGED <<physvars, lockword, cpu_if, mpvars, pmapvars>>

(* mu_spinlock_rel: xor %rax, %rax; xchg %rax, lock                         *)
RelXchg(p) ==
    /\ cpu[p].pc = "rel"
    /\ lockword' = [lockword EXCEPT ![cpu[p].lock] = 0]
    /\ cpu' = [cpu EXCEPT ![p].pc = "sti"]
    /\ UNCHANGED <<physvars, cpu_if, mpvars, pmapvars>>

(* mu_spinlock_rel with sti whatever the flags                              *)
RelSti_Always(p) ==
    /\ cpu[p].pc = "sti"
    /\ cpu_if' = [cpu_if EXCEPT ![p] = TRUE]
    /\ held' = IF cpu[p].op = "alloc" /\ cpu[p].base /= 0
               THEN Hold(held, [base |-> cpu[p].base, count |-> cpu[p].count])
               ELSE held
    /\ cpu' = [cpu EXCEPT ![p] = IdleCpu]
    /\ UNCHANGED <<phase, memmap0, memmap, bitmap_base, bitmap_size,
                   highest_usable, bitmap, last_index, usable0, lastop>>
    /\ UNCHANGED <<lockword, mpvars, pmapvars>>

(* mu_spinlock_rel: sti when SPINLOCK_INTTOG is set; the call returns       *)
RelSti(p) ==
    /\ cpu[p].pc = "sti"
    /\ cpu_if' = IF cpu[p].inttog THEN [cpu_if EXCEPT ![p] = TRUE]
                 ELSE cpu_if
    /\ held' = IF cpu[p].op = "alloc" /\ cpu[p].base /= 0
               THEN Hold(held, [base |-> cpu[p].base, count |-> cpu[p].count])
               ELSE held
    /\ cpu' = [cpu EXCEPT ![p] = IdleCpu]
    /\ UNCHANGED <<phase, memmap0, memmap, bitmap_base, bitmap_size,
                   highest_usable, bitmap, last_index, usable0, lastop>>
    /\ UNCHANGED <<lockword, mpvars, pmapvars>>

LockNext ==
    \E p \in Cpus :
        \/ \E count \in 1..LockMaxCount : CallAlloc(p, count)
        \/ \E i \in DOMAIN held : CallFree(p, i)
        \/ AcqCli(p)
        \/ AcqSpin(p)
        \/ AllocFirst(p)
        \/ AllocRetry(p)
        \/ FreeBody(p)
        \/ RelXchg(p)
        \/ RelSti(p)

(* vm_phys_alloc and vm_phys_free called in parallel                        *)
SpecLock == LockInit /\ [][LockNext]_vars

IrqNext ==
    \/ LockNext
    \/ \E p \in Cpus :
          \/ CallMount(p)
          \/ MountBody(p)

(* the same, on processors that also call mount                             *)
SpecIrq == LockInit /\ [][IrqNext]_vars

(* the processors call vm_phys_alloc and mount, each with interrupts        *)
(* enabled or disabled at the start                                         *)
TogInit ==
    /\ phase = "run"
    /\ memmap0 \in LockMaps
    /\ memmap = Booted(memmap0).memmap
    /\ bitmap_base = Booted(memmap0).bitmap_base
    /\ bitmap_size = Booted(memmap0).bitmap_size
    /\ highest_usable = Booted(memmap0).highest_usable
    /\ bitmap = Booted(memmap0).bitmap
    /\ last_index = 0
    /\ held = <<>>
    /\ usable0 = Cardinality(ClearBits(bitmap, MaxIndex))
    /\ lastop = NoOp
    /\ lockword = [l \in LockNames |-> 0]
    /\ cpu = [p \in Cpus |-> IdleCpu]
    /\ cpu_if \in [Cpus -> BOOLEAN]
    /\ PmapIdle
    /\ MpIdle

TogNext ==
    \E p \in Cpus :
        \/ \E count \in 1..LockMaxCount : CallAlloc(p, count)
        \/ CallMount(p)
        \/ AcqCli(p)
        \/ AcqSpin(p)
        \/ AllocFirst(p)
        \/ AllocRetry(p)
        \/ MountBody(p)
        \/ RelXchg(p)
        \/ RelSti(p)

SpecTog == TogInit /\ [][TogNext]_vars

----------------------------------------------------------------------------
(* The bring-up of the application processors: cpu_start_aps on the         *)
(* bootstrap processor, the MADT walk of acpi_read_madt with cpu_lapic_cb   *)
(* as callback, lapic_send_ipi, the local APIC that delivers the signals,   *)
(* and on every secondary the startup routine at AP_BUA_PADDR followed by   *)
(* cpu_lm_entry.                                                            *)

(* the APIC IDs of the machine                                              *)
ApicIds == {0, 1, 16}

LapicEntry(id, flags) ==
    [type |-> APIC_TYPE_LOCAL_APIC, apic_id |-> id, flags |-> flags]

(* an entry of another type (an I/O APIC, an interrupt source override)     *)
OtherEntry == [type |-> APIC_TYPE_LOCAL_APIC + 1, apic_id |-> 0, flags |-> 0]

(* flags 1: enabled; flags 0: neither enabled nor online capable            *)
MadtEntries ==
    { LapicEntry(id, f) : id \in ApicIds, f \in {0, 1} } \cup {OtherEntry}

IsLapic(e) == e.type = APIC_TYPE_LOCAL_APIC

(* the tables the firmware can hand over when the bootstrap processor has   *)
(* APIC ID b: b is listed as enabled, no APIC ID is listed twice            *)
Madts(b) ==
    { m \in UNION { [1..n -> MadtEntries] : n \in 1..MaxMadt } :
        /\ \E i \in DOMAIN m : m[i] = LapicEntry(b, 1)
        /\ \A i \in DOMAIN m : \A j \in DOMAIN m :
              (i /= j /\ IsLapic(m[i]) /\ IsLapic(m[j]))
                  => m[i].apic_id /= m[j].apic_id }

(* the APIC IDs of a machine with more secondaries than cpu_list has slots  *)
CapIds == 0..(MAX_CPUS + 1)

(* the secondaries that exist and can be started                            *)
Secondaries ==
    { id \in ApicIds \cup CapIds : id /= bsp_id
                       /\ \E i \in DOMAIN madt :
                            IsLapic(madt[i]) /\ madt[i].apic_id = id
                            /\ ISSET(madt[i].flags, 3) }

(* the ID register as the hardware presents it: in xAPIC mode the ID sits   *)
(* in bits 24-31 of a 32-bit register, in x2APIC mode the MSR is the ID     *)
LapicIdReg(x2, id) == IF x2 THEN id ELSE id * 16777216

(* lapic_read_id                                                            *)
lapic_read_id(x2, id) ==
    IF ~x2 THEN BitAnd(LapicIdReg(x2, id) \div 16777216, 15)
    ELSE LapicIdReg(x2, id)

(* lapic_send_ipi for a request that is not a self shorthand in x2APIC      *)
(* mode.  The command register is kept by field.  xAPIC: the 64-bit value   *)
(* built for the high register carries the destination in bits 56-63 (b56)  *)
(* and the register's old contents in bits 0-31 (dest: bits 24-31), and     *)
(* mmio_write32 stores bits 0-31 of it; the low register is read back and   *)
(* the request is or-ed into it.  x2APIC: the value is cleared, then built  *)
(* from the request, and written as one MSR.                                *)
IcrHiValue(reg, dest_id) == [dest |-> reg.dest, b56 |-> dest_id % 256]

mmio_write32(val) == val.dest

lapic_send_ipi(reg, x2, ipi) ==
    IF ~x2
    THEN [dest |-> mmio_write32(IcrHiValue(reg, ipi.dest_id % 256)),
          vector |-> BitOr(reg.vector, ipi.vector),
          delmod |-> BitOr(reg.delmod, ipi.delmod),
          logical |-> BitOr(reg.logical, ipi.logical_dest),
          shorthand |-> BitOr(reg.shorthand, ipi.shorthand),
          pending |-> 1]
    ELSE [dest |-> ipi.dest_id,
          vector |-> BitOr(0, ipi.vector),
          delmod |-> BitOr(0, ipi.delmod),
          logical |-> BitOr(0, ipi.logical_dest),
          shorthand |-> BitOr(0, ipi.shorthand),
          pending |-> 1]

(* the processors a written command addresses                               *)
Targets(reg) ==
    CASE reg.shorthand = 0 ->
            IF reg.logical = 0 THEN {reg.dest} \cap ({bsp_id} \cup Secondaries)
            ELSE {}
      [] reg.shorthand = 1 -> {bsp_id}
      [] reg.shorthand = 2 -> {bsp_id} \cup Secondaries
      [] reg.shorthand = 3 -> Secondaries

(* cpu_init_bootspace: four single-frame allocations; a failure frees the   *)
(* frames obtained so far and returns -ENOMEM, leaving their addresses in   *)
(* the structure                                                            *)
BsStep(st, field) ==
    IF st.ret /= 0 THEN st
    ELSE LET a == vm_phys_alloc(st.bitmap, st.cursor, st.max_index, 1)
         IN  IF a.base /= 0
             THEN [st EXCEPT !.bs = [st.bs EXCEPT ![field] = a.base],
                             !.bitmap = a.bitmap, !.cursor = a.cursor,
                             !.got = Append(st.got, a.base)]
             ELSE [st EXCEPT !.bs = [st.bs EXCEPT ![field] = 0],
                             !.bitmap = LET F[k \in 0..Len(st.got)] ==
                                            IF k = 0 THEN a.bitmap
                                            ELSE vm_phys_free(F[k - 1],
                                                              st.got[k], 1)
                                        IN  F[Len(st.got)],
                             !.cursor = a.cursor,
                             !.got = <<>>,
                             !.ret = -1]

cpu_init_bootspace(b, bm, cursor, max_index) ==
    BsStep(BsStep(BsStep(BsStep(
        [bs |-> b, bitmap |-> bm, cursor |-> cursor, max_index |-> max_index,
         got |-> <<>>, ret |-> 0],
        "pml4"), "pml3"), "pml2"), "pml1")

RECURSIVE HoldAll(_, _)
HoldAll(s, bases) ==
    IF bases = <<>> THEN s
    ELSE HoldAll(Hold(s, [base |-> Head(bases), count |-> 1]), Tail(bases))

(* one entry of log: what happened, to which processors, and for a signal  *)
(* its delivery mode and vector, for a delay its length in milliseconds     *)
Ev(what, to, delmod, n) ==
    [ev |-> what, to |-> to, delmod |-> delmod, n |-> n]

NoIpi == [dest_id |-> 0, vector |-> 0, delmod |-> 0, shorthand |-> 0,
          logical_dest |-> 0]

ApOff == [pc |-> "none", cr3 |-> 0, rsp |-> 0, rbx |-> "", ci |-> 0,
          pqueue |-> <<>>]

(* the memory maps of the bring-up runs: n usable frames below the          *)
(* bring-up pages                                                           *)
MpUsable == {5, 7}

MpMaps ==
    { <<Entry(0, (BYTE_BITS - n) * PAGESIZE, MEM_RESERVED),
        Entry((BYTE_BITS - n) * PAGESIZE, c2, MEM_USABLE),
        Entry(c2, c3, MEM_RESERVED)>> :
        n \in MpUsable, c2 \in Cut2, c3 \in Cut3 }

(* vm_kalloc_init: the kernel heap is taken from the frame allocator        *)
HeapAlloc(map) ==
    vm_phys_alloc(Booted(map).bitmap, 0,
                  Booted(map).highest_usable \div PAGESIZE, HeapPages)

(* the command register as the firmware left it: the reset value, or the    *)
(* destination of an earlier command                                        *)
IcrBoot ==
    { [dest |-> d, vector |-> 0, delmod |-> 0, logical |-> 0,
       shorthand |-> 0, pending |-> 0] : d \in {0, 1} }

(* the state in which cpu_start_aps is entered                              *)
MpInit ==
    /\ phase = "run"
    /\ memmap0 \in MpMaps
    /\ memmap = Booted(memmap0).memmap
    /\ bitmap_base = Booted(memmap0).bitmap_base
    /\ bitmap_size = Booted(memmap0).bitmap_size
    /\ highest_usable = Booted(memmap0).highest_usable
    /\ bitmap = HeapAlloc(memmap0).bitmap
    /\ last_index = 0
    /\ held = <<[base |-> HeapAlloc(memmap0).base, count |-> HeapPages]>>
    /\ usable0 = Cardinality(ClearBits(Booted(memmap0).bitmap, MaxIndex))
    /\ lastop = NoOp
    /\ LockIdle
    /\ PmapIdle
    /\ has_x2apic \in BOOLEAN
    /\ bsp_id \in ApicIds
    /\ madt \in Madts(bsp_id)
    /\ bsp = [pc |-> "boot", idx |-> 1, arg |-> 0, retval |-> 0,
              target |-> -1, stack |-> 0, ipi |-> NoIpi, k |-> 0, idle |-> 0,
              pid |-> 0]
    /\ \E junk \in {0, 1} :
          buda = [cr3 |-> 0, rsp |-> 0, lm_entry |-> "", is_booted |-> junk]
    /\ bs = [pml4 |-> 0, pml3 |-> 0, pml2 |-> 0, pml1 |-> 0]
    /\ icr \in IcrBoot
    /\ log = <<>>
    /\ ipicall = NoSend
    /\ ipi_reqs = {}
    /\ signals = {}
    /\ stacks = {}
    /\ ap = [id \in ApicIds |->
                IF id \in Secondaries THEN [ApOff EXCEPT !.pc = "halt"]
                ELSE ApOff]
    /\ ap_count = 0
    /\ aps_up = 0
    /\ cpu_list = [s \in 0..MaxMadt |-> -1]

(* cpu_start_aps up to the call of acpi_read_madt: the processor table      *)
(* gets the bootstrap processor, the bootstrap address space is set up      *)
(* (its return value is not looked at), and lapic_read_id gives the         *)
(* argument of the walk.  retval of acpi_read_madt starts uninitialised.    *)
CpuStartAps ==
    /\ phase = "run"
    /\ bsp.pc = "boot"
    /\ LET r == cpu_init_bootspace(bs, bitmap, last_index, MaxIndex)
       IN  /\ bs' = r.bs
           /\ bitmap' = r.bitmap
           /\ last_index' = r.cursor
           /\ held' = HoldAll(held, r.got)
    /\ cpu_list' = [cpu_list EXCEPT ![0] = bsp_id]
    /\ \E junk \in {-1, 0} :
          bsp' = [bsp EXCEPT !.pc = "madt", !.idx = 1, !.retval = junk,
                             !.arg = lapic_read_id(has_x2apic, bsp_id)]
    /\ UNCHANGED <<phase, memmap0, memmap, bitmap_base, bitmap_size,
                   highest_usable, usable0, lastop>>
    /\ UNCHANGED <<pmapvars, ipicall>>
    /\ UNCHANGED <<has_x2apic, bsp_id, madt, buda, icr, log, ipi_reqs,
                   signals, stacks, ap, ap_count, aps_up>>
    /\ UNCHANGED lockvars

(* acpi_read_madt: the next entry; one of the requested type goes to the    *)
(* callback                                                                 *)
MadtNext ==
    /\ phase = "run"
    /\ bsp.pc = "madt"
    /\ bsp.idx <= Len(madt)
    /\ bsp' = [bsp EXCEPT !.pc = IF madt[bsp.idx].type = APIC_TYPE_LOCAL_APIC
                                 THEN "cb" ELSE "check"]
    /\ UNCHANGED <<pmapvars, ipicall>>
    /\ UNCHANGED <<has_x2apic, bsp_id, madt, buda, bs, icr, log, ipi_reqs,
                   signals, stacks, ap, ap_count, aps_up, cpu_list>>
    /\ UNCHANGED <<physvars, lockvars>>

(* acpi_read_madt: if (retval >= 0) return retval; cur += hdr->length       *)
MadtCheck ==
    /\ phase = "run"
    /\ bsp.pc = "check"
    /\ bsp' = IF bsp.retval >= 0 THEN [bsp EXCEPT !.pc = "wait_up"]
              ELSE [bsp EXCEPT !.pc = "madt", !.idx = bsp.idx + 1]
    /\ UNCHANGED <<pmapvars, ipicall>>
    /\ UNCHANGED <<has_x2apic, bsp_id, madt, buda, bs, icr, log, ipi_reqs,
                   signals, stacks, ap, ap_count, aps_up, cpu_list>>
    /\ UNCHANGED <<physvars, lockvars>>

(* acpi_read_madt: the end of the table, return -1                          *)
MadtEnd ==
    /\ phase = "run"
    /\ bsp.pc = "madt"
    /\ bsp.idx > Len(madt)
    /\ bsp' = [bsp EXCEPT !.pc = "wait_up"]
    /\ UNCHANGED <<pmapvars, ipicall>>
    /\ UNCHANGED <<has_x2apic, bsp_id, madt, buda, bs, icr, log, ipi_reqs,
                   signals, stacks, ap, ap_count, aps_up, cpu_list>>
    /\ UNCHANGED <<physvars, lockvars>>

(* cpu_lapic_cb: the two tests that skip an entry                           *)
CbSkips(e, arg) == e.apic_id = arg \/ ~ISSET(e.flags, 3)

CbSkip ==
    /\ phase = "run"
    /\ bsp.pc = "cb"
    /\ CbSkips(madt[bsp.idx], bsp.arg)
    /\ bsp' = [bsp EXCEPT !.pc = "check", !.retval = -1]
    /\ UNCHANGED <<pmapvars, ipicall>>
    /\ UNCHANGED <<has_x2apic, bsp_id, madt, buda, bs, icr, log, ipi_reqs,
                   signals, stacks, ap, ap_count, aps_up, cpu_list>>
    /\ UNCHANGED <<physvars, lockvars>>

(* cpu_lapic_cb: stack = vm_phys_alloc(1), not 0                            *)
CbStack ==
    /\ phase = "run"
    /\ bsp.pc = "cb"
    /\ ~CbSkips(madt[bsp.idx], bsp.arg)
    /\ LET a == vm_phys_alloc(bitmap, last_index, MaxIndex, 1)
       IN  /\ a.base /= 0
           /\ bitmap' = a.bitmap
           /\ last_index' = a.cursor
           /\ held' = Hold(held, [base |-> a.base, count |-> 1])
           /\ bsp' = [bsp EXCEPT !.pc = "buda", !.stack = a.base,
                                 !.target = madt[bsp.idx].apic_id]
           /\ stacks' = stacks \cup
                        {[id |-> madt[bsp.idx].apic_id, base |-> a.base]}
    /\ log' = <<>>
    /\ UNCHANGED <<phase, memmap0, memmap, bitmap_base, bitmap_size,
                   highest_usable, usable0, lastop>>
    /\ UNCHANGED <<pmapvars, ipicall>>
    /\ UNCHANGED <<has_x2apic, bsp_id, madt, buda, bs, icr, ipi_reqs, signals,
                   ap, ap_count, aps_up, cpu_list>>
    /\ UNCHANGED lockvars

(* cpu_lapic_cb: vm_phys_alloc(1) returned 0, panic                         *)
CbStackPanic ==
    /\ phase = "run"
    /\ bsp.pc = "cb"
    /\ ~CbSkips(madt[bsp.idx], bsp.arg)
    /\ LET a == vm_phys_alloc(bitmap, last_index, MaxIndex, 1)
       IN  /\ a.base = 0
           /\ bitmap' = a.bitmap
           /\ last_index' = a.cursor
    /\ phase' = "panic"
    /\ UNCHANGED <<memmap0, memmap, bitmap_base, bitmap_size, highest_usable,
                   held, usable0, lastop>>
    /\ UNCHANGED <<mpvars, pmapvars, lockvars>>

(* cpu_lapic_cb: the descriptor is filled in and the INIT request prepared  *)
CbWriteBuda ==
    /\ phase = "run"
    /\ bsp.pc = "buda"
    /\ buda' = [buda EXCEPT !.rsp = bsp.stack + (PAGESIZE - 1),
                            !.lm_entry = "cpu_lm_entry",
                            !.cr3 = bs.pml4]
    /\ log' = log \o <<Ev("write rsp", {}, 0, 0),
                       Ev("write lm_entry", {}, 0, 0),
                       Ev("write cr3", {}, 0, 0)>>
    /\ bsp' = [bsp EXCEPT !.pc = "send",
                          !.ipi = [dest_id |-> bsp.target, vector |-> 0,
                                   delmod |-> IPI_DELMOD_INIT,
                                   shorthand |-> IPI_SHAND_NONE,
                                   logical_dest |-> 0]]
    /\ UNCHANGED <<pmapvars, ipicall>>
    /\ UNCHANGED <<has_x2apic, bsp_id, madt, bs, icr, ipi_reqs, signals,
                   stacks, ap, ap_count, aps_up, cpu_list>>
    /\ UNCHANGED <<physvars, lockvars>>

(* one access of lapic_send_ipi to a register of the local APIC             *)
Io(op, reg) == [op |-> op, reg |-> reg]

(* lapic_send_ipi with the low register written before the high one         *)
SendAccesses_LowFirst(x2) ==
    IF ~x2
    THEN <<Io("read", "ICRLO"), Io("write", "ICRLO"),
           Io("read", "ICRHI"), Io("write", "ICRHI")>>
    ELSE <<Io("read", "ICRLO"), Io("write", "ICRLO")>>

(* the accesses of lapic_send_ipi up to the write of the command register:  *)
(* lapic_read and lapic_write of lines 272-294.  In x2APIC mode             *)
(* LAPIC_REG_ICRLO is the MSR of the whole command register                 *)
SendAccesses(x2) ==
    IF ~x2
    THEN <<Io("read", "ICRHI"), Io("write", "ICRHI"),
           Io("read", "ICRLO"), Io("write", "ICRLO")>>
    ELSE <<Io("read", "ICRLO"), Io("write", "ICRLO")>>

(* lapic_send_ipi(mcb, &ipi) up to the write of the command register; in    *)
(* xAPIC mode the request's destination is clamped to 8 bits.  In x2APIC    *)
(* mode the call returns after the write                                    *)
LapicSendIpi ==
    /\ phase = "run"
    /\ bsp.pc = "send"
    /\ ~(bsp.ipi.shorthand = IPI_SHAND_SELF /\ has_x2apic)
    /\ icr' = lapic_send_ipi(icr, has_x2apic, bsp.ipi)
    /\ ipicall' = [acc |-> SendAccesses(has_x2apic),
                   ret |-> IF has_x2apic THEN "0" ELSE "none"]
    /\ ipi_reqs' = ipi_reqs \cup {bsp.ipi}
    /\ bsp' = [bsp EXCEPT !.pc = IF has_x2apic THEN "sleep" ELSE "poll",
                          !.ipi.dest_id = IF has_x2apic THEN bsp.ipi.dest_id
                                          ELSE bsp.ipi.dest_id % 256]
    /\ UNCHANGED pmapvars
    /\ UNCHANGED <<has_x2apic, bsp_id, madt, buda, bs, log, signals, stacks,
                   ap, ap_count, aps_up, cpu_list>>
    /\ UNCHANGED <<physvars, lockvars>>

(* the local APIC sends the written command: INIT parks its targets in      *)
(* wait-for-SIPI, STARTUP starts a parked target at vector * 4096, any      *)
(* other delivery mode starts nothing                                       *)
Delivered(a, id, reg) ==
    IF id \notin Targets(reg) \cap Secondaries THEN a
    ELSE IF reg.delmod = IPI_DELMOD_INIT
         THEN [ApOff EXCEPT !.pc = "wait_sipi", !.pqueue = a.pqueue]
    ELSE IF reg.delmod = IPI_DELMOD_STARTUP /\ a.pc = "wait_sipi"
         THEN [a EXCEPT !.pc = IF reg.vector * PAGESIZE = AP_BUA_PADDR
                               THEN "t_cr3" ELSE "lost"]
    ELSE a

ApicDeliver ==
    /\ phase = "run"
    /\ icr.pending = 1
    /\ icr' = [icr EXCEPT !.pending = 0]
    /\ signals' = signals \cup
                  {[to |-> Targets(icr), delmod |-> icr.delmod,
                    vector |-> icr.vector]}
    /\ log' = Append(log, Ev("signal", Targets(icr), icr.delmod, icr.vector))
    /\ ap' = [id \in DOMAIN ap |-> Delivered(ap[id], id, icr)]
    /\ bsp' = IF icr.delmod = IPI_DELMOD_INIT /\ bsp_id \in Targets(icr)
              THEN [bsp EXCEPT !.pc = "reset"] ELSE bsp
    /\ UNCHANGED <<pmapvars, ipicall>>
    /\ UNCHANGED <<has_x2apic, bsp_id, madt, buda, bs, ipi_reqs, stacks,
                   ap_count, aps_up, cpu_list>>
    /\ UNCHANGED <<physvars, lockvars>>

(* lapic_send_ipi, lines 256-259: the self shorthand of an x2APIC through   *)
(* the command register                                                     *)
LapicSendIpiSelf_ViaIcr ==
    /\ phase = "run"
    /\ bsp.pc = "send"
    /\ bsp.ipi.shorthand = IPI_SHAND_SELF
    /\ has_x2apic
    /\ icr' = lapic_send_ipi(icr, has_x2apic, bsp.ipi)
    /\ ipicall' = [acc |-> SendAccesses(has_x2apic), ret |-> "0"]
    /\ ipi_reqs' = ipi_reqs \cup {bsp.ipi}
    /\ bsp' = [bsp EXCEPT !.pc = "sleep"]
    /\ UNCHANGED pmapvars
    /\ UNCHANGED <<has_x2apic, bsp_id, madt, buda, bs, log, signals, stacks,
                   ap, ap_count, aps_up, cpu_list>>
    /\ UNCHANGED <<physvars, lockvars>>

(* lapic_send_ipi, lines 256-259: the self shorthand of an x2APIC is one    *)
(* wrmsr of the vector to the self IPI register, which signals the          *)
(* processor itself, and the call returns 0                                 *)
LapicSendIpiSelf ==
    /\ phase = "run"
    /\ bsp.pc = "send"
    /\ bsp.ipi.shorthand = IPI_SHAND_SELF
    /\ has_x2apic
    /\ ipicall' = [acc |-> <<Io("write", "SELF_IPI")>>, ret |-> "0"]
    /\ signals' = signals \cup
                  {[to |-> {bsp_id}, delmod |-> 0, vector |-> bsp.ipi.vector]}
    /\ log' = Append(log, Ev("signal", {bsp_id}, 0, bsp.ipi.vector))
    /\ ipi_reqs' = ipi_reqs \cup {bsp.ipi}
    /\ bsp' = [bsp EXCEPT !.pc = "sleep"]
    /\ UNCHANGED pmapvars
    /\ UNCHANGED <<has_x2apic, bsp_id, madt, buda, bs, icr, stacks, ap,
                   ap_count, aps_up, cpu_list>>
    /\ UNCHANGED <<physvars, lockvars>>

(* lapic_ipi_poll: until the delivery status bit reads clear; of the reads  *)
(* of the low register the one that ends the loop is kept                   *)
LapicIpiPoll ==
    /\ phase = "run"
    /\ bsp.pc = "poll"
    /\ icr.pending = 0
    /\ bsp' = [bsp EXCEPT !.pc = "sleep"]
    /\ ipicall' = [acc |-> Append(ipicall.acc, Io("read", "ICRLO")),
                   ret |-> "0"]
    /\ UNCHANGED pmapvars
    /\ UNCHANGED <<has_x2apic, bsp_id, madt, buda, bs, icr, log, ipi_reqs,
                   signals, stacks, ap, ap_count, aps_up, cpu_list>>
    /\ UNCHANGED <<physvars, lockvars>>

(* cpu_lapic_cb: hpet_msleep(20) after INIT, then the STARTUP request is    *)
(* prepared; hpet_msleep(2) after each of the two STARTUP.  A queued        *)
(* command has left the APIC before a delay of milliseconds ends.           *)
HpetMsleep ==
    /\ phase = "run"
    /\ bsp.pc = "sleep"
    /\ icr.pending = 0
    /\ IF bsp.ipi.delmod = IPI_DELMOD_INIT
       THEN /\ log' = Append(log, Ev("sleep", {}, 0, 20))
            /\ bsp' = [bsp EXCEPT !.pc = "send", !.k = 0,
                                  !.ipi.delmod = IPI_DELMOD_STARTUP,
                                  !.ipi.vector = AP_BUA_PADDR \div PAGESIZE]
       ELSE /\ log' = Append(log, Ev("sleep", {}, 0, 2))
            /\ bsp' = [bsp EXCEPT !.k = bsp.k + 1,
                                  !.pc = IF bsp.k + 1 < 2 THEN "send"
                                         ELSE "wait"]
    /\ UNCHANGED <<pmapvars, ipicall>>
    /\ UNCHANGED <<has_x2apic, bsp_id, madt, buda, bs, icr, ipi_reqs, signals,
                   stacks, ap, ap_count, aps_up, cpu_list>>
    /\ UNCHANGED <<physvars, lockvars>>

(* cpu_lapic_cb: while (!buda->is_booted);                                  *)
CbWait ==
    /\ phase = "run"
    /\ bsp.pc = "wait"
    /\ buda.is_booted /= 0
    /\ log' = Append(log, Ev("observe", {}, 0, 0))
    /\ bsp' = [bsp EXCEPT !.pc = "clear"]
    /\ UNCHANGED <<pmapvars, ipicall>>
    /\ UNCHANGED <<has_x2apic, bsp_id, madt, buda, bs, icr, ipi_reqs, signals,
                   stacks, ap, ap_count, aps_up, cpu_list>>
    /\ UNCHANGED <<physvars, lockvars>>

ApCountFull_Never(n) == FALSE

(* cpu_lapic_cb: (++ap_count) >= MAX_CPUS - 1, n the incremented count      *)
ApCountFull(n) == n >= MAX_CPUS - 1

(* cpu_lapic_cb: buda->is_booted = 0; ++ap_count against MAX_CPUS - 1       *)
CbClear ==
    /\ phase = "run"
    /\ bsp.pc = "clear"
    /\ buda' = [buda EXCEPT !.is_booted = 0]
    /\ log' = Append(log, Ev("clear", {}, 0, 0))
    /\ ap_count' = ap_count + 1
    /\ bsp' = [bsp EXCEPT !.pc = "check",
                          !.retval = IF ApCountFull(ap_count + 1)
                                     THEN 0 ELSE -1]
    /\ UNCHANGED <<pmapvars, ipicall>>
    /\ UNCHANGED <<has_x2apic, bsp_id, madt, bs, icr, ipi_reqs, signals,
                   stacks, ap, aps_up, cpu_list>>
    /\ UNCHANGED <<physvars, lockvars>>

AllUp_NoWait(up, count) == TRUE

(* cpu_start_aps: the test that ends while (aps_up < ap_count)              *)
AllUp(up, count) == ~(up < count)

(* cpu_start_aps: while (aps_up < ap_count); then cpu_start_idle is called  *)
CpuWaitUp ==
    /\ phase = "run"
    /\ bsp.pc = "wait_up"
    /\ AllUp(aps_up, ap_count)
    /\ bsp' = [bsp EXCEPT !.pc = "start_idle", !.idle = 0]
    /\ UNCHANGED <<pmapvars, ipicall>>
    /\ UNCHANGED <<has_x2apic, bsp_id, madt, buda, bs, icr, log, ipi_reqs,
                   signals, stacks, ap, ap_count, aps_up, cpu_list>>
    /\ UNCHANGED <<physvars, lockvars>>

(* process_init(p, cpu_idle, PROC_KERN) when it succeeds: a new kernel      *)
(* thread descriptor with the next pid, bound to no processor               *)
process_init(pid) == [pid |-> pid, affinity |-> -1]

(* cpu_get(index), NULL being -1                                            *)
cpu_get(list, up, index) ==
    IF index >= up + 1 THEN -1 ELSE list[index]

(* sched_enqueue_proc: while ((core = cpu_get(i++)) == NULL)                *)
RECURSIVE SchedCore(_, _, _, _)
SchedCore(list, up, ncpu, i) ==
    IF cpu_get(list, up, i) /= -1 THEN cpu_get(list, up, i)
    ELSE SchedCore(list, up, ncpu, IF i + 1 > ncpu THEN 0 ELSE i + 1)

sched_enqueue_proc_NoInsert(aps, list, up, count, proc) == aps

(* sched_enqueue_proc(proc) with cpu_count() = count + 1: the processor     *)
(* records after the call                                                   *)
sched_enqueue_proc(aps, list, up, count, proc) ==
    IF proc.affinity >= 0 /\ cpu_get(list, up, proc.affinity) /= -1
    THEN aps
    ELSE LET core == SchedCore(list, up, count + 1,
                               BitAnd(proc.pid, 255) % (count + 1))
         IN  [aps EXCEPT ![core].pqueue = Append(@, proc.pid)]

(* cpu_start_idle: one turn of the loop, kalloc and process_init succeed    *)
CpuStartIdle ==
    /\ phase = "run"
    /\ bsp.pc = "start_idle"
    /\ bsp.idle < ap_count
    /\ ap' = sched_enqueue_proc(ap, cpu_list, aps_up, ap_count,
                                process_init(bsp.pid))
    /\ bsp' = [bsp EXCEPT !.idle = bsp.idle + 1, !.pid = bsp.pid + 1]
    /\ UNCHANGED <<pmapvars, ipicall>>
    /\ UNCHANGED <<has_x2apic, bsp_id, madt, buda, bs, icr, log, ipi_reqs,
                   signals, stacks, ap_count, aps_up, cpu_list>>
    /\ UNCHANGED <<physvars, lockvars>>

(* cpu_start_idle: kalloc returned NULL or process_init failed, panic       *)
CpuStartIdlePanic ==
    /\ phase = "run"
    /\ bsp.pc = "start_idle"
    /\ bsp.idle < ap_count
    /\ phase' = "panic"
    /\ UNCHANGED <<memmap0, memmap, bitmap_base, bitmap_size, highest_usable,
                   bitmap, last_index, held, usable0, lastop>>
    /\ UNCHANGED <<mpvars, pmapvars, lockvars>>

(* cpu_start_idle and cpu_start_aps return                                  *)
CpuStartApsDone ==
    /\ phase = "run"
    /\ bsp.pc = "start_idle"
    /\ ~(bsp.idle < ap_count)
    /\ bsp' = [bsp EXCEPT !.pc = "done"]
    /\ UNCHANGED <<pmapvars, ipicall>>
    /\ UNCHANGED <<has_x2apic, bsp_id, madt, buda, bs, icr, log, ipi_reqs,
                   signals, stacks, ap, ap_count, aps_up, cpu_list>>
    /\ UNCHANGED <<physvars, lockvars>>

(* the dword a 32-bit load takes from a quadword: its two low words         *)
Low32(q) == (q % 65536) + 65536 * ((q \div 65536) % 65536)

(* the startup routine: mov eax, dword [AP_BUDA]; mov cr3, eax              *)
ApLoadCr3(id) ==
    /\ phase = "run"
    /\ ap[id].pc = "t_cr3"
    /\ ap' = [ap EXCEPT ![id].cr3 = Low32(buda.cr3), ![id].pc = "t_rsp"]
    /\ UNCHANGED <<pmapvars, ipicall>>
    /\ UNCHANGED <<has_x2apic, bsp_id, madt, bsp, buda, bs, icr, log,
                   ipi_reqs, signals, stacks, ap_count, aps_up, cpu_list>>
    /\ UNCHANGED <<physvars, lockvars>>

(* thunk64: mov rsp, qword [AP_BUDA + 0x08]                                 *)
ApLoadRsp(id) ==
    /\ phase = "run"
    /\ ap[id].pc = "t_rsp"
    /\ ap' = [ap EXCEPT ![id].rsp = buda.rsp, ![id].pc = "t_rbx"]
    /\ UNCHANGED <<pmapvars, ipicall>>
    /\ UNCHANGED <<has_x2apic, bsp_id, madt, bsp, buda, bs, icr, log,
                   ipi_reqs, signals, stacks, ap_count, aps_up, cpu_list>>
    /\ UNCHANGED <<physvars, lockvars>>

(* thunk64: mov rbx, qword [AP_BUDA + 0x10]                                 *)
ApLoadRbx(id) ==
    /\ phase = "run"
    /\ ap[id].pc = "t_rbx"
    /\ ap' = [ap EXCEPT ![id].rbx = buda.lm_entry, ![id].pc = "t_xchg"]
    /\ UNCHANGED <<pmapvars, ipicall>>
    /\ UNCHANGED <<has_x2apic, bsp_id, madt, bsp, buda, bs, icr, log,
                   ipi_reqs, signals, stacks, ap_count, aps_up, cpu_list>>
    /\ UNCHANGED <<physvars, lockvars>>

(* thunk64: mov rax, 1; xchg qword [AP_BUDA + 0x18], rax; jmp rbx           *)
ApSetBooted(id) ==
    /\ phase = "run"
    /\ ap[id].pc = "t_xchg"
    /\ buda' = [buda EXCEPT !.is_booted = 1]
    /\ ap' = [ap EXCEPT ![id].pc = IF ap[id].rbx = "cpu_lm_entry"
                                   THEN "lm_kalloc" ELSE "lost"]
    /\ UNCHANGED <<pmapvars, ipicall>>
    /\ UNCHANGED <<has_x2apic, bsp_id, madt, bsp, bs, icr, log, ipi_reqs,
                   signals, stacks, ap_count, aps_up, cpu_list>>
    /\ UNCHANGED <<physvars, lockvars>>

(* cpu_lm_entry: ci = kalloc(sizeof *ci), not NULL                          *)
ApKalloc(id) ==
    /\ phase = "run"
    /\ ap[id].pc = "lm_kalloc"
    /\ ap' = [ap EXCEPT ![id].pc = "lm_id"]
    /\ UNCHANGED <<pmapvars, ipicall>>
    /\ UNCHANGED <<has_x2apic, bsp_id, madt, bsp, buda, bs, icr, log,
                   ipi_reqs, signals, stacks, ap_count, aps_up, cpu_list>>
    /\ UNCHANGED <<physvars, lockvars>>

(* cpu_lm_entry: kalloc returned NULL, panic                                *)
ApKallocPanic(id) ==
    /\ phase = "run"
    /\ ap[id].pc = "lm_kalloc"
    /\ phase' = "panic"
    /\ UNCHANGED <<memmap0, memmap, bitmap_base, bitmap_size, highest_usable,
                   bitmap, last_index, held, usable0, lastop>>
    /\ UNCHANGED <<mpvars, pmapvars, lockvars>>

(* cpu_lm_entry: ci->id = aps_up + 1                                        *)
ApSetId(id) ==
    /\ phase = "run"
    /\ ap[id].pc = "lm_id"
    /\ ap' = [ap EXCEPT ![id].ci = aps_up + 1, ![id].pc = "lm_inc"]
    /\ UNCHANGED <<pmapvars, ipicall>>
    /\ UNCHANGED <<has_x2apic, bsp_id, madt, bsp, buda, bs, icr, log,
                   ipi_reqs, signals, stacks, ap_count, aps_up, cpu_list>>
    /\ UNCHANGED <<physvars, lockvars>>

(* cpu_lm_entry: atomic_inc_int(&aps_up)                                    *)
ApIncUp(id) ==
    /\ phase = "run"
    /\ ap[id].pc = "lm_inc"
    /\ aps_up' = aps_up + 1
    /\ ap' = [ap EXCEPT ![id].pc = "lm_list"]
    /\ UNCHANGED <<pmapvars, ipicall>>
    /\ UNCHANGED <<has_x2apic, bsp_id, madt, bsp, buda, bs, icr, log,
                   ipi_reqs, signals, stacks, ap_count, cpu_list>>
    /\ UNCHANGED <<physvars, lockvars>>

(* cpu_lm_entry: cpu_list[aps_up] = ci; cpu_idle()                          *)
ApListStore(id) ==
    /\ phase = "run"
    /\ ap[id].pc = "lm_list"
    /\ cpu_list' = [cpu_list EXCEPT ![aps_up] = id]
    /\ ap' = [ap EXCEPT ![id].pc = "idle"]
    /\ UNCHANGED <<pmapvars, ipicall>>
    /\ UNCHANGED <<has_x2apic, bsp_id, madt, bsp, buda, bs, icr, log,
                   ipi_reqs, signals, stacks, ap_count, aps_up>>
    /\ UNCHANGED <<physvars, lockvars>>

MpNext ==
    \/ CpuStartAps
    \/ MadtNext
    \/ MadtCheck
    \/ MadtEnd
    \/ CbSkip
    \/ CbStack
    \/ CbStackPanic
    \/ CbWriteBuda
    \/ LapicSendIpi
    \/ ApicDeliver
    \/ LapicIpiPoll
    \/ HpetMsleep
    \/ CbWait
    \/ CbClear
    \/ CpuWaitUp
    \/ CpuStartIdle
    \/ CpuStartIdlePanic
    \/ CpuStartApsDone
    \/ \E id \in DOMAIN ap :
          \/ ApLoadCr3(id)
          \/ ApLoadRsp(id)
          \/ ApLoadRbx(id)
          \/ ApSetBooted(id)
          \/ ApKalloc(id)
          \/ ApKallocPanic(id)
          \/ ApSetId(id)
          \/ ApIncUp(id)
          \/ ApListStore(id)

SpecMp == MpInit /\ [][MpNext]_vars

(* the steps of the bootstrap processor that call no allocator              *)
BspStep ==
    \/ MadtNext
    \/ MadtCheck
    \/ MadtEnd
    \/ CbSkip
    \/ CbWriteBuda
    \/ LapicSendIpi
    \/ LapicIpiPoll
    \/ HpetMsleep
    \/ CbWait
    \/ CbClear
    \/ CpuWaitUp
    \/ CpuStartIdle
    \/ CpuStartApsDone

(* the steps of the secondary id whose allocation succeeds                  *)
ApStep(id) ==
    \/ ApLoadCr3(id)
    \/ ApLoadRsp(id)
    \/ ApLoadRbx(id)
    \/ ApSetBooted(id)
    \/ ApKalloc(id)
    \/ ApSetId(id)
    \/ ApIncUp(id)
    \/ ApListStore(id)

(* every processor keeps executing, and the local APIC sends what was       *)
(* written to its command register.  The bootstrap processor's two steps    *)
(* that call the allocator (CpuStartAps; CbStack or CbStackPanic) can       *)
(* always be taken where it stands before them, so that it keeps executing  *)
(* means it does not stand there for ever.                                  *)
MpFairness ==
    /\ WF_vars(BspStep)
    /\ []<>(phase = "panic" \/ bsp.pc /= "boot")
    /\ []<>(phase = "panic" \/ bsp.pc /= "cb")
    /\ WF_vars(ApicDeliver)
    /\ \A id \in CapIds : WF_vars(ApStep(id))

(* a table that lists the bootstrap processor and then n online-capable     *)
(* secondaries                                                              *)
CapMadt(n) ==
    [i \in 1..(n + 1) |-> LapicEntry(i - 1, 1)]

(* the memory maps of these runs: those of MpMaps, one too small for the    *)
(* four tables of the bootstrap address space, and one with usable memory   *)
(* on both sides of the bring-up pages, enough for every stack              *)
CapMaps ==
    MpMaps \cup
    { <<Entry(0, (BYTE_BITS - 4) * PAGESIZE, MEM_RESERVED),
        Entry((BYTE_BITS - 4) * PAGESIZE, c2, MEM_USABLE),
        Entry(c2, c3, MEM_RESERVED)>> : c2 \in Cut2, c3 \in Cut3 } \cup
    { <<Entry(0, PAGESIZE, MEM_RESERVED),
        Entry(PAGESIZE, AP_BUA_PADDR, MEM_USABLE),
        Entry(AP_BUA_PADDR, AP_BUDA_PADDR + PAGESIZE, MEM_RESERVED),
        Entry(AP_BUDA_PADDR + PAGESIZE, (NBits - 1) * PAGESIZE,
              MEM_USABLE)>> }

(* cpu_start_aps is entered on a machine whose table lists up to            *)
(* MAX_CPUS + 1 secondaries                                                 *)
CapInit ==
    /\ phase = "run"
    /\ memmap0 \in CapMaps
    /\ memmap = Booted(memmap0).memmap
    /\ bitmap_base = Booted(memmap0).bitmap_base
    /\ bitmap_size = Booted(memmap0).bitmap_size
    /\ highest_usable = Booted(memmap0).highest_usable
    /\ bitmap = HeapAlloc(memmap0).bitmap
    /\ last_index = 0
    /\ held = <<[base |-> HeapAlloc(memmap0).base, count |-> HeapPages]>>
    /\ usable0 = Cardinality(ClearBits(Booted(memmap0).bitmap, MaxIndex))
    /\ lastop = NoOp
    /\ LockIdle
    /\ PmapIdle
    /\ has_x2apic \in BOOLEAN
    /\ bsp_id = 0
    /\ madt \in { CapMadt(n) : n \in 1..(MAX_CPUS + 1) }
    /\ bsp = [pc |-> "boot", idx |-> 1, arg |-> 0, retval |-> 0,
              target |-> -1, stack |-> 0, ipi |-> NoIpi, k |-> 0, idle |-> 0,
              pid |-> 0]
    /\ \E junk \in {0, 1} :
          buda = [cr3 |-> 0, rsp |-> 0, lm_entry |-> "", is_booted |-> junk]
    /\ bs = [pml4 |-> 0, pml3 |-> 0, pml2 |-> 0, pml1 |-> 0]
    /\ icr \in IcrBoot
    /\ log = <<>>
    /\ ipicall = NoSend
    /\ ipi_reqs = {}
    /\ signals = {}
    /\ stacks = {}
    /\ ap = [id \in CapIds |->
                IF id \in Secondaries THEN [ApOff EXCEPT !.pc = "halt"]
                ELSE ApOff]
    /\ ap_count = 0
    /\ aps_up = 0
    /\ cpu_list = [s \in 0..(MAX_CPUS + 1) |-> -1]

SpecCap == CapInit /\ [][MpNext]_vars

SpecCapFair == CapInit /\ [][MpNext]_vars /\ MpFairness

(* the APIC IDs a stack was allocated for                                   *)
StackIds == { s.id : s \in stacks }

(* the pids the first idle thread can get: the threads made before          *)
Pids == 0..MaxPid

(* cpu_start_aps is entered with the ready flag clear, after any number of  *)
(* threads up to MaxPid were made                                           *)
IdleInit ==
    /\ phase = "run"
    /\ memmap0 \in CapMaps
    /\ memmap = Booted(memmap0).memmap
    /\ bitmap_base = Booted(memmap0).bitmap_base
    /\ bitmap_size = Booted(memmap0).bitmap_size
    /\ highest_usable = Booted(memmap0).highest_usable
    /\ bitmap = HeapAlloc(memmap0).bitmap
    /\ last_index = 0
    /\ held = <<[base |-> HeapAlloc(memmap0).base, count |-> HeapPages]>>
    /\ usable0 = Cardinality(ClearBits(Booted(memmap0).bitmap, MaxIndex))
    /\ lastop = NoOp
    /\ LockIdle
    /\ PmapIdle
    /\ has_x2apic \in BOOLEAN
    /\ bsp_id = 0
    /\ madt \in { CapMadt(n) : n \in 1..(MAX_CPUS + 1) }
    /\ bsp \in { [pc |-> "boot", idx |-> 1, arg |-> 0, retval |-> 0,
                  target |-> -1, stack |-> 0, ipi |-> NoIpi, k |-> 0,
                  idle |-> 0, pid |-> pid] : pid \in Pids }
    /\ buda = [cr3 |-> 0, rsp |-> 0, lm_entry |-> "", is_booted |-> 0]
    /\ bs = [pml4 |-> 0, pml3 |-> 0, pml2 |-> 0, pml1 |-> 0]
    /\ icr \in IcrBoot
    /\ log = <<>>
    /\ ipicall = NoSend
    /\ ipi_reqs = {}
    /\ signals = {}
    /\ stacks = {}
    /\ ap = [id \in CapIds |->
                IF id \in Secondaries THEN [ApOff EXCEPT !.pc = "halt"]
                ELSE ApOff]
    /\ ap_count = 0
    /\ aps_up = 0
    /\ cpu_list = [s \in 0..(MAX_CPUS + 1) |-> -1]

SpecIdle == IdleInit /\ [][MpNext]_vars

(* sched_enqueue_proc(proc): the processor it returns                       *)
sched_enqueue_core(list, up, count, proc) ==
    IF proc.affinity >= 0 /\ cpu_get(list, up, proc.affinity) /= -1
    THEN cpu_get(list, up, proc.affinity)
    ELSE SchedCore(list, up, count + 1, BitAnd(proc.pid, 255) % (count + 1))

(* after the bring-up a thread that may be bound to a processor is          *)
(* enqueued: sched_enqueue_proc(proc) from its first line to its return     *)
SchedEnqueueProc ==
    /\ phase = "run"
    /\ bsp.pc = "done"
    /\ \E proc \in { [pid |-> bsp.pid, affinity |-> a] : a \in -1..ap_count } :
          /\ ap' = sched_enqueue_proc(ap, cpu_list, aps_up, ap_count, proc)
          /\ bsp' = [pc |-> "enqueued", proc |-> proc, was |-> ap,
                     core |-> sched_enqueue_core(cpu_list, aps_up, ap_count,
                                                 proc)]
    /\ UNCHANGED <<pmapvars, ipicall>>
    /\ UNCHANGED <<has_x2apic, bsp_id, madt, buda, bs, icr, log, ipi_reqs,
                   signals, stacks, ap_count, aps_up, cpu_list>>
    /\ UNCHANGED <<physvars, lockvars>>

SchedInit == IdleInit

SchedNext ==
    \/ MpNext
    \/ SchedEnqueueProc

SpecSched == SchedInit /\ [][SchedNext]_vars

----------------------------------------------------------------------------
(* The address spaces (the pmap functions)                                  *)

(* entries of a page table, and the first entry of the upper half           *)
NPTE == 512
NPTE_LOWER == 256

PTE_P == 1
PTE_RW == 2

PtIndex == 0..(NPTE - 1)

(* the entry a table holds at index i when it maps something there          *)
PteAt(i) == (i + 1) * PAGESIZE + PTE_P + PTE_RW

(* the indices at which the top-level table of the caller may hold an       *)
(* entry: the ends of the two halves                                        *)
PtMarks == {0, NPTE_LOWER - 1, NPTE_LOWER, NPTE - 1}

(* the top-level tables the caller may run on                               *)
ParentTables ==
    { [i \in PtIndex |-> IF i \in used THEN PteAt(i) ELSE 0] :
        used \in SUBSET PtMarks }

(* what a frame nobody has written holds: zeroes, or what was left there    *)
Garbage == {0, PTE_P}

(* the memory maps of these runs: the frames below PmapBase are not usable, *)
(* the loader's top-level table is in the last of them                      *)
PmapBase == 2 * PAGESIZE

PmapMaps ==
    { <<Entry(0, PmapBase, MEM_RESERVED),
        Entry(PmapBase, c2, MEM_USABLE),
        Entry(c2, c3, MEM_RESERVED)>> : c2 \in Cut2, c3 \in Cut3 }

(* what the caller's struct mmu_vas holds before anything was stored in it: *)
(* zero, or a handle read earlier with mu_pmap_readvas                      *)
VasJunk == {0, PmapBase - PAGESIZE}

(* mu_pmap_forkvas: the value stored into pml4_dest[i]                      *)
ForkEntry_CopyAll(i, src) == src[i]

ForkEntry(i, src) == IF i < NPTE_LOWER THEN 0 ELSE src[i]

(* mu_pmap_forkvas: for (i = 0; i < 512; ++i) on the memory mem, with       *)
(* pml4_dest in frame d and pml4_src in frame s.  Turn i reads and writes   *)
(* entry i only, so no turn sees what another wrote.                        *)
ForkLoop(mem, d, s) ==
    [mem EXCEPT ![d] = [i \in PtIndex |-> ForkEntry(i, mem[s])]]

(* the kernel runs on the loader's address space after vm_phys_init and     *)
(* vm_kalloc_init                                                           *)
PmapInit ==
    /\ phase = "run"
    /\ memmap0 \in PmapMaps
    /\ memmap = Booted(memmap0).memmap
    /\ bitmap_base = Booted(memmap0).bitmap_base
    /\ bitmap_size = Booted(memmap0).bitmap_size
    /\ highest_usable = Booted(memmap0).highest_usable
    /\ bitmap = HeapAlloc(memmap0).bitmap
    /\ last_index = 0
    /\ held = <<[base |-> HeapAlloc(memmap0).base, count |-> HeapPages]>>
    /\ usable0 = Cardinality(ClearBits(Booted(memmap0).bitmap, MaxIndex))
    /\ lastop = NoOp
    /\ LockIdle
    /\ MpIdle
    /\ cr3 = PmapBase - PAGESIZE
    /\ \E parent \in ParentTables, g \in Garbage :
          ptmem = [f \in Frames |->
                     IF f = cr3 \div PAGESIZE THEN parent
                     ELSE [i \in PtIndex |-> g]]
    /\ fork = NoFork
    /\ vas \in { [cr3 |-> j] : j \in VasJunk }
    /\ mapcall = NoMap
    /\ tlb = {}

(* mu_pmap_forkvas(result): the frame is allocated and filled, return 0     *)
MuPmapForkvas ==
    /\ phase = "run"
    /\ LET a == vm_phys_alloc(bitmap, last_index, MaxIndex, 1)
       IN  /\ a.base /= 0
           /\ bitmap' = a.bitmap
           /\ last_index' = a.cursor
           /\ held' = Hold(held, [base |-> a.base, count |-> 1])
           /\ ptmem' = ForkLoop(ptmem, a.base \div PAGESIZE,
                                cr3 \div PAGESIZE)
           /\ fork' = [ret |-> "0", paddr |-> a.base,
                       src |-> ptmem[cr3 \div PAGESIZE], vas0 |-> vas]
    /\ UNCHANGED <<phase, memmap0, memmap, bitmap_base, bitmap_size,
                   highest_usable, usable0, lastop>>
    /\ UNCHANGED <<lockvars, mpvars, cr3, vas, mapcall, tlb>>

(* mu_pmap_forkvas(result): vm_phys_alloc(1) returned 0, return -ENOMEM     *)
MuPmapForkvasNoMem ==
    /\ phase = "run"
    /\ LET a == vm_phys_alloc(bitmap, last_index, MaxIndex, 1)
       IN  /\ a.base = 0
           /\ bitmap' = a.bitmap
           /\ last_index' = a.cursor
    /\ fork' = [ret |-> "-ENOMEM", paddr |-> 0,
                src |-> ptmem[cr3 \div PAGESIZE], vas0 |-> vas]
    /\ UNCHANGED <<phase, memmap0, memmap, bitmap_base, bitmap_size,
                   highest_usable, held, usable0, lastop>>
    /\ UNCHANGED <<lockvars, mpvars, cr3, ptmem, vas, mapcall, tlb>>

PmapNext ==
    \/ MuPmapForkvas
    \/ MuPmapForkvasNoMem

SpecPmap == PmapInit /\ [][PmapNext]_vars

(* the flags of an entry.  The entries of the model are 31 bits wide: the   *)
(* address takes bits 12..29 and execute-disable, bit 63 of the source's    *)
(* entries, is the top bit                                                  *)
PTE_US == 4
PTE_NX == 1073741824

(* pmap[index] & PTE_ADDR_MASK                                              *)
PteAddr(e) == ((e % PTE_NX) \div PAGESIZE) * PAGESIZE

PMAP_PML1 == 0
PMAP_PML4 == 3

(* pmap_prot_conv without the test for PROT_EXEC                            *)
pmap_prot_conv_KeepNx(prot) ==
    LET p0 == BitOr(PTE_P, PTE_NX)
        p1 == IF "w" \in prot THEN BitOr(p0, PTE_RW) ELSE p0
    IN  IF "u" \in prot THEN BitOr(p1, PTE_US) ELSE p1

(* pmap_prot_conv(prot); prot is the set of the PROT_ bits that are set     *)
pmap_prot_conv(prot) ==
    LET p0 == BitOr(PTE_P, PTE_NX)
        p1 == IF "w" \in prot THEN BitOr(p0, PTE_RW) ELSE p0
        p2 == IF "x" \in prot THEN p1 - BitAnd(p1, PTE_NX) ELSE p1
    IN  IF "u" \in prot THEN BitOr(p2, PTE_US) ELSE p2

(* a linear address is kept as its four table indices <<bits 39-47,         *)
(* bits 30-38, bits 21-29, bits 12-20>>; pmap_get_index(va, level) shifts   *)
(* and masks the one of the level                                           *)
pmap_get_index(va, level) == va[PMAP_PML4 + 1 - level]

ZeroTable == [i \in PtIndex |-> 0]

(* the element of a set of one element; a value computed once is bound as   *)
(* the element of such a set                                                *)
The(S) == CHOOSE x \in S : TRUE

(* pmap_get_level without the store into pmap[index]                        *)
NewLevel_NoLink(st, index, a) ==
    [st EXCEPT
        !.mem = [st.mem EXCEPT ![a.base \div PAGESIZE] = ZeroTable],
        !.pmap = a.base \div PAGESIZE, !.bitmap = a.bitmap,
        !.cursor = a.cursor, !.made = Append(st.made, a.base)]

(* pmap_get_level, lines 153-163: the new level at base is zeroed, linked   *)
(* from pmap[index] and becomes the table the walk stands on                *)
NewLevel(st, index, a) ==
    [st EXCEPT
        !.mem = [[st.mem EXCEPT ![a.base \div PAGESIZE] = ZeroTable]
                    EXCEPT ![st.pmap][index] =
                        BitOr(a.base, PTE_P + PTE_RW + PTE_US)],
        !.pmap = a.base \div PAGESIZE, !.bitmap = a.bitmap,
        !.cursor = a.cursor, !.made = Append(st.made, a.base)]

(* pmap_get_level: while ((curlvl--) > lvl) on the state st of the walk:    *)
(* the table it stands on, memory, the allocator, the frames it allocated.  *)
(* tbl is the frame of the table it returns, -1 for NULL                    *)
RECURSIVE GetLevelLoop(_, _, _, _, _, _)
GetLevelLoop(st, va, en_alloc, lvl, curlvl, max_index) ==
    IF ~(curlvl > lvl) THEN [st EXCEPT !.tbl = st.pmap]
    ELSE LET index == pmap_get_index(va, curlvl - 1)
             e == st.mem[st.pmap][index]
         IN  IF ISSET(e, PTE_P)
             THEN [st EXCEPT !.tbl = PteAddr(e) \div PAGESIZE]
             ELSE IF ~en_alloc THEN [st EXCEPT !.tbl = -1]
             ELSE The({ IF a.base = 0
                        THEN [st EXCEPT !.tbl = -1, !.bitmap = a.bitmap,
                                        !.cursor = a.cursor]
                        ELSE The({ GetLevelLoop(n, va, en_alloc, lvl,
                                                curlvl - 1, max_index) :
                                     n \in {NewLevel(st, index, a)} }) :
                        a \in {vm_phys_alloc(st.bitmap, st.cursor,
                                             max_index, 1)} })

(* pmap_get_level(vas, va, en_alloc, lvl) with vas->cr3 = root              *)
pmap_get_level(mem, bm, cursor, max_index, root, va, en_alloc, lvl) ==
    GetLevelLoop([pmap |-> root \div PAGESIZE, mem |-> mem, bitmap |-> bm,
                  cursor |-> cursor, made |-> <<>>, tbl |-> -1],
                 va, en_alloc, lvl, PMAP_PML4, max_index)

(* pmap_invlpg(va): the processor drops what it cached for va               *)
pmap_invlpg(cache, va) == { t \in cache : t.va /= va }

(* the processor's walk of the four levels from the table at root: the leaf *)
(* entry of va, 0 when an entry on the way is not present                   *)
Walk(mem, root, va) ==
    LET e4 == mem[root \div PAGESIZE][va[1]]
        e3 == IF ISSET(e4, PTE_P)
              THEN mem[PteAddr(e4) \div PAGESIZE][va[2]] ELSE 0
        e2 == IF ISSET(e3, PTE_P)
              THEN mem[PteAddr(e3) \div PAGESIZE][va[3]] ELSE 0
        e1 == IF ISSET(e2, PTE_P)
              THEN mem[PteAddr(e2) \div PAGESIZE][va[4]] ELSE 0
    IN  IF ISSET(e1, PTE_P) THEN e1 ELSE 0

(* the linear addresses, the frames and the permission sets the callers     *)
(* pass: an address whose four indices are equal, one whose indices all     *)
(* differ, and a lower-half address whose level-3 index is in the upper     *)
(* half                                                                     *)
VAs == {<<0, 0, 0, 0>>, <<0, 1, 2, 3>>, <<0, NPTE_LOWER, 0, 1>>}

PAs == {TopPages * PAGESIZE, (TopPages + 1) * PAGESIZE}

Prots == SUBSET {"r", "w", "x", "u"}

(* mu_pmap_map(&vas, pa, va, prot, ps) returns 0                            *)
MuPmapMap ==
    /\ phase = "run"
    /\ mapcall.n < MaxMaps
    /\ \E pa \in PAs, va \in VAs :
         \E g \in {pmap_get_level(ptmem, bitmap, last_index, MaxIndex,
                                 vas.cr3, va, TRUE, PMAP_PML1)} :
             /\ g.tbl /= -1
             /\ bitmap' = g.bitmap
             /\ last_index' = g.cursor
             /\ held' = HoldAll(held, g.made)
             /\ ptmem' = [g.mem EXCEPT
                             ![g.tbl][pmap_get_index(va, PMAP_PML1)] =
                                 BitOr(pa, pmap_prot_conv(mapcall.prot))]
             /\ tlb' = pmap_invlpg(tlb, va)
             /\ mapcall' = [mapcall EXCEPT !.op = "map", !.ret = "0",
                               !.n = mapcall.n + 1, !.root = vas.cr3,
                               !.pa = pa, !.va = va, !.tbl = g.tbl,
                               !.made = g.made, !.before = <<>>,
                               !.was = Walk(ptmem, cr3, va)]
    /\ UNCHANGED <<phase, memmap0, memmap, bitmap_base, bitmap_size,
                   highest_usable, usable0, lastop>>
    /\ UNCHANGED <<lockvars, mpvars, cr3, fork, vas>>

(* mu_pmap_map: pmap_get_level returned NULL, return -ENOMEM                *)
MuPmapMapNoMem ==
    /\ phase = "run"
    /\ mapcall.n < MaxMaps
    /\ \E pa \in PAs, va \in VAs :
         \E g \in {pmap_get_level(ptmem, bitmap, last_index, MaxIndex,
                                 vas.cr3, va, TRUE, PMAP_PML1)} :
             /\ g.tbl = -1
             /\ bitmap' = g.bitmap
             /\ last_index' = g.cursor
             /\ held' = HoldAll(held, g.made)
             /\ ptmem' = g.mem
             /\ mapcall' = [mapcall EXCEPT !.op = "map", !.ret = "-ENOMEM",
                               !.n = mapcall.n + 1, !.root = vas.cr3,
                               !.pa = pa, !.va = va, !.tbl = g.tbl,
                               !.made = g.made, !.before = ptmem,
                               !.was = Walk(ptmem, cr3, va)]
    /\ UNCHANGED <<phase, memmap0, memmap, bitmap_base, bitmap_size,
                   highest_usable, usable0, lastop>>
    /\ UNCHANGED <<lockvars, mpvars, cr3, fork, vas, tlb>>


----------------------------------------------------------------------------
(* Properties of the lock *)

(* the processors between a completed mu_spinlock_acq of a lock and the end *)
(* of the xchg of the matching mu_spinlock_rel                              *)
Holders(l) ==
    { p \in Cpus : cpu[p].lock = l
                   /\ cpu[p].pc \in {"first", "retry", "clear", "insert",
                                     "rel"} }

(* the processors about to read or write the bitmap or the scan cursor      *)
Accessing == { p \in Cpus : cpu[p].pc \in {"first", "retry", "clear"} }

\* C2: at most one processor at a time is between a completed
\* mu_spinlock_acq and the matching mu_spinlock_rel of bitmap_lock, and a
\* processor reads or writes the bitmap and the scan cursor only while it is
\* the one that holds the lock.
C2_BitmapMutex ==
    /\ Cardinality(Holders("bitmap_lock")) <= 1
    /\ \A p \in Accessing :
           /\ lockword["bitmap_lock"] = 1
           /\ Holders("bitmap_lock") = {p}

(* one processor is inside the section while another has tried the lock    *)
(* word and found it taken                                                  *)
C2_Witness ==
    \E p \in Cpus : \E q \in Cpus :
        /\ p /= q
        /\ p \in Accessing
        /\ cpu[q].lock = "bitmap_lock"
        /\ cpu[q].pc = "spin"
        /\ cpu[q].rax = 1

\* C3: a processor that holds bitmap_lock has interrupts disabled.
C3_BitmapLockIrqOff ==
    \A p \in Holders("bitmap_lock") : ~cpu_if[p]

----------------------------------------------------------------------------
(* Properties of the frame allocator *)

HeldFrames(h) ==
    { f \in Frames : h.base <= f * PAGESIZE
                     /\ f * PAGESIZE < h.base + h.count * PAGESIZE }

RECURSIVE HeldCount(_)
HeldCount(s) == IF s = <<>> THEN 0 ELSE Head(s).count + HeldCount(Tail(s))

(* frames that hold a byte of the bitmap storage                            *)
BitmapFrames ==
    { f \in Frames : /\ bitmap_base >= 0
                     /\ f * PAGESIZE < bitmap_base + bitmap_size
                     /\ bitmap_base < (f + 1) * PAGESIZE }

(* frames that hold a byte of a boot memory-map entry that is not usable    *)
UnusableFrames ==
    { f \in Frames : \E k \in DOMAIN memmap0 :
          /\ memmap0[k].type /= MEM_USABLE
          /\ f * PAGESIZE < memmap0[k].base + memmap0[k].length
          /\ memmap0[k].base < (f + 1) * PAGESIZE }

\* C1: no two ranges returned by vm_phys_alloc that are both still allocated
\* share a frame.
C1_NoOverlap ==
    \A i \in DOMAIN held : \A j \in DOMAIN held :
        i < j => HeldFrames(held[i]) \cap HeldFrames(held[j]) = {}

\* C4: when vm_phys_init has returned, every frame of the bitmap's own
\* storage and every frame of a non-usable entry has its bit set, and no
\* range returned later by vm_phys_alloc holds such a frame.
C4_ProtectedFrames ==
    phase = "run" =>
        \A f \in BitmapFrames \cup UnusableFrames :
            /\ (lastop.op = "none" /\ f < MaxIndex) => bitmap[f] = 1
            /\ \A i \in DOMAIN held : f \notin HeldFrames(held[i])

\* C5: vm_phys_alloc(N) followed at once by vm_phys_free(base, N) leaves the
\* bitmap as it was before the allocation.
C5_RoundTrip ==
    (lastop.op = "free" /\ lastop.roundtrip) => bitmap = lastop.before

\* C6: between calls, the frames the callers hold plus the frames whose bit
\* is clear are as many as the frames that were free when vm_phys_init
\* returned.
C6_Conservation ==
    phase = "run" =>
        HeldCount(held) + Cardinality(ClearBits(bitmap, MaxIndex)) = usable0

HasRun(bm, max_index, count) ==
    \E s \in Frames :
        /\ s + count <= max_index
        /\ \A f \in s..(s + count - 1) : bm[f] = 0

\* C7: vm_phys_alloc scans at most twice, returns 0 only when the bitmap has
\* no run of count clear bits after the cursor was reset, and returns a base
\* only when the frames of the returned range were a run of count clear bits
\* below max_index.
C7_FailureIffNoRun ==
    lastop.op = "alloc" =>
        /\ lastop.scans <= 2
        /\ lastop.base = 0 =>
               /\ lastop.scans = 2
               /\ ~HasRun(lastop.seen, MaxIndex, lastop.count)
        /\ lastop.base /= 0 =>
               LET s == lastop.base \div PAGESIZE
               IN  /\ s + lastop.count <= MaxIndex
                   /\ \A f \in s..(s + lastop.count - 1) :
                          lastop.seen[f] = 0


\* C8: the page of the startup routine and the page of the bring-up
\* descriptor are never inside a range returned by vm_phys_alloc.
C8_BringUpPagesReserved ==
    \A i \in DOMAIN held :
        /\ (AP_BUA_PADDR \div PAGESIZE) \notin HeldFrames(held[i])
        /\ (AP_BUDA_PADDR \div PAGESIZE) \notin HeldFrames(held[i])

----------------------------------------------------------------------------
(* Properties of the bring-up *)

(* what the handshake with the secondary t consists of, in order            *)
Handshake(t) ==
    <<Ev("write rsp", {}, 0, 0),
      Ev("write lm_entry", {}, 0, 0),
      Ev("write cr3", {}, 0, 0),
      Ev("signal", {t}, IPI_DELMOD_INIT, 0),
      Ev("sleep", {}, 0, 20),
      Ev("signal", {t}, IPI_DELMOD_STARTUP, AP_BUA_PADDR \div PAGESIZE),
      Ev("sleep", {}, 0, 2),
      Ev("signal", {t}, IPI_DELMOD_STARTUP, AP_BUA_PADDR \div PAGESIZE),
      Ev("sleep", {}, 0, 2),
      Ev("observe", {}, 0, 0),
      Ev("clear", {}, 0, 0)>>

IsPrefix(s, t) ==
    /\ Len(s) <= Len(t)
    /\ \A i \in DOMAIN s : s[i] = t[i]

\* C9: for each secondary that is brought up, what the controller does is,
\* in this order: the descriptor's stack pointer, entry address and
\* address-space handle are written; one INIT signal goes to the target;
\* the 20 ms delay; two STARTUP signals with vector 0x8000 >> 12 go to the
\* target, each followed by a delay; the wait on the ready flag; the flag is
\* cleared.  No signal precedes the descriptor writes.
C9_HandshakeOrder ==
    bsp.target /= -1 => IsPrefix(log, Handshake(bsp.target))

(* the entries the controller has to pass over                              *)
Passed ==
    { madt[i].apic_id : i \in { j \in DOMAIN madt :
          /\ IsLapic(madt[j])
          /\ (madt[j].apic_id = bsp_id \/ ~ISSET(madt[j].flags, 3)) } }

(* the processors that made themselves a processor record                   *)
Records ==
    { id \in DOMAIN ap :
        ap[id].pc \in {"lm_id", "lm_inc", "lm_list", "idle"} }

\* C10: for an entry whose APIC ID is the bootstrap processor's own, or
\* which is not online capable, no stack is allocated, no INIT or STARTUP
\* is requested for that ID and no processor record is made; when the
\* bring-up is complete there are as many records as online-capable
\* secondaries in the table.
C10_SkipSelfAndOffline ==
    /\ \A id \in Passed :
           /\ id \notin StackIds
           /\ \A r \in ipi_reqs : r.dest_id /= id
           /\ id \notin Records
    /\ bsp.pc = "done" => Cardinality(Records) = Cardinality(Secondaries)

(* the table lists more online-capable secondaries than cpu_list has slots  *)
MoreThanMax == Cardinality(Secondaries) > MAX_CPUS

(* the secondaries whose entries come after the entry the walk is at        *)
Later ==
    { madt[i].apic_id : i \in { j \in DOMAIN madt : j > bsp.idx } }

InHandshake ==
    { id \in DOMAIN ap :
        ap[id].pc \in {"wait_sipi", "t_cr3", "t_rsp", "t_rbx", "t_xchg"} }

\* C12: a secondary that was signalled and has not yet set the ready flag
\* is the one the controller is bringing up: the controller does not turn
\* to the next processor (allocate its stack, write the descriptor, send
\* INIT or STARTUP) before the previous one has set the flag itself.
C12_OneAtATime ==
    \A id \in InHandshake : id = bsp.target

\* C13: when the controller sends the INIT signal of a handshake, the first
\* one included, the descriptor's ready flag is 0.
C13_UnreadyAtInit ==
    (bsp.pc = "send" /\ bsp.ipi.delmod = IPI_DELMOD_INIT)
        => buda.is_booted = 0

(* the processors whose record has its identifier assigned                  *)
Identified ==
    { id \in DOMAIN ap : ap[id].pc \in {"lm_inc", "lm_list", "idle"} }

\* C14: the identifiers of the processor records are pairwise distinct,
\* and when the bring-up is declared complete every slot
\* cpu_list[1..ap_count] holds a record, no two slots the same one.
C14_DistinctRecords ==
    /\ \A a \in Identified : \A b \in Identified :
           a /= b => ap[a].ci /= ap[b].ci
    /\ bsp.pc = "done" =>
           /\ \A k \in 1..ap_count : cpu_list[k] /= -1
           /\ \A k \in 1..ap_count : \A l \in 1..ap_count :
                  k /= l => cpu_list[k] /= cpu_list[l]

\* C15: cpu_start_aps has declared the bring-up complete, or made an idle
\* thread, only if aps_up equals ap_count.
C15_CompleteWhenAllUp ==
    (bsp.pc = "done" \/ bsp.idle > 0) => aps_up = ap_count

C15_Witness ==
    /\ bsp.pc = "done"
    /\ ap_count = 2
    /\ aps_up = 2
    /\ bsp.idle = 2

\* C16: when the hardware responds and every processor keeps taking steps,
\* cpu_start_aps finishes unless an allocation fails: each wait on the
\* ready flag and the final wait on the up-counter ends.
C16_BringUpFinishes ==
    <>(bsp.pc = "done" \/ phase = "panic")

(* cpu_init_bootspace returned -ENOMEM: one of the four tables is missing   *)
BootspaceFailed ==
    /\ bsp.pc /= "boot"
    /\ \E f \in DOMAIN bs : bs[f] = 0

(* the secondaries that have loaded the address-space handle                *)
LoadedCr3 ==
    { id \in DOMAIN ap : ap[id].pc \notin {"none", "halt", "wait_sipi",
                                           "t_cr3"} }

\* C17: after a failed allocation on the bring-up path nothing is signalled:
\* when cpu_init_bootspace has failed, no stack is allocated and no INIT or
\* STARTUP is requested or sent; and no secondary loads the address-space
\* handle 0.
C17_AllocFailureHalts ==
    /\ BootspaceFailed => (stacks = {} /\ ipi_reqs = {} /\ signals = {})
    /\ \A id \in LoadedCr3 : ap[id].cr3 /= 0

(* the idle threads on the ready queues of the processors in ids            *)
RECURSIVE Queued(_)
Queued(ids) ==
    IF ids = {} THEN 0
    ELSE LET id == CHOOSE x \in ids : TRUE
         IN  Len(ap[id].pqueue) + Queued(ids \ {id})

Adopted ==
    { id \in DOMAIN ap : ap[id].pc \in {"lm_kalloc", "lm_id", "lm_inc",
                                         "lm_list", "idle"} }

\* C19: a secondary that has left the startup routine runs with the
\* address-space handle, the stack pointer and the entry address that the
\* controller wrote into the descriptor for it.
C19_AdoptsOwnDescriptor ==
    \A id \in Adopted :
        /\ ap[id].cr3 = bs.pml4
        /\ ap[id].rbx = "cpu_lm_entry"
        /\ \E s \in stacks : s.id = id /\ ap[id].rsp = s.base + (PAGESIZE - 1)

\* C20: after a successful mu_pmap_forkvas the table it allocated has every
\* entry 256..511 equal to the caller's top-level table, every entry 0..255
\* empty, and the caller's top-level table is as it was before the call.
C20_ForkCopiesUpperHalf ==
    fork.ret = "0" =>
        /\ \A i \in NPTE_LOWER..(NPTE - 1) :
              ptmem[fork.paddr \div PAGESIZE][i] = fork.src[i]
        /\ \A i \in 0..(NPTE_LOWER - 1) :
              ptmem[fork.paddr \div PAGESIZE][i] = 0
        /\ ptmem[cr3 \div PAGESIZE] = fork.src

C20_Witness ==
    /\ fork.ret = "0"
    /\ fork.src[NPTE_LOWER - 1] /= 0
    /\ fork.src[NPTE_LOWER] /= 0
    /\ ptmem[fork.paddr \div PAGESIZE][NPTE_LOWER] = fork.src[NPTE_LOWER]
    /\ ptmem[fork.paddr \div PAGESIZE][NPTE_LOWER - 1] = 0

(* mu_pmap_map: ps > PMAP_PML4, return -EINVAL before pa, va or prot is     *)
(* looked at                                                                *)
MuPmapMapInval ==
    /\ phase = "run"
    /\ mapcall.n < MaxMaps
    /\ mapcall' = [NoMap EXCEPT !.op = "map", !.ret = "-EINVAL",
                      !.n = mapcall.n + 1, !.root = vas.cr3,
                      !.prot = mapcall.prot]
    /\ UNCHANGED <<physvars, lockvars, mpvars, cr3, ptmem, fork, vas, tlb>>

(* mu_pmap_unmap(&vas, va, ps): the traversal of mu_pmap_map without        *)
(* allocation, the leaf entry is cleared and its cached translation dropped *)
MuPmapUnmap ==
    /\ phase = "run"
    /\ mapcall.n < MaxMaps
    /\ \E va \in VAs :
         \E g \in {pmap_get_level(ptmem, bitmap, last_index, MaxIndex,
                                 vas.cr3, va, FALSE, PMAP_PML1)} :
             /\ ptmem' = IF g.tbl = -1 THEN ptmem
                         ELSE [ptmem EXCEPT
                                  ![g.tbl][pmap_get_index(va, PMAP_PML1)] = 0]
             /\ tlb' = IF g.tbl = -1 THEN tlb ELSE pmap_invlpg(tlb, va)
             /\ mapcall' = [mapcall EXCEPT !.op = "unmap",
                               !.ret = IF g.tbl = -1 THEN "-1" ELSE "0",
                               !.n = mapcall.n + 1, !.root = vas.cr3,
                               !.pa = 0, !.va = va, !.tbl = g.tbl,
                               !.made = <<>>, !.before = <<>>,
                               !.was = Walk(ptmem, cr3, va)]
    /\ UNCHANGED <<physvars, lockvars, mpvars, cr3, fork, vas>>

(* mu_pmap_readvas(&vas)                                                    *)
MuPmapReadvas ==
    /\ phase = "run"
    /\ vas.cr3 /= cr3
    /\ vas' = [vas EXCEPT !.cr3 = cr3]
    /\ UNCHANGED <<physvars, lockvars, mpvars, cr3, ptmem, fork, mapcall,
                   tlb>>

(* the translation a read of va goes through: the cached one when there is  *)
(* one, else the walk from the address-space base register; 0 is a fault    *)
Read(cache, mem, va) ==
    IF \E t \in cache : t.va = va
    THEN (CHOOSE t \in cache : t.va = va).pte
    ELSE Walk(mem, cr3, va)

(* the processor touches va and caches the translation it walked            *)
TlbFill ==
    /\ phase = "run"
    /\ \E va \in VAs :
         /\ ~(\E t \in tlb : t.va = va)
         /\ Walk(ptmem, cr3, va) /= 0
         /\ tlb' = tlb \cup {[va |-> va, pte |-> Walk(ptmem, cr3, va)]}
    /\ UNCHANGED <<physvars, lockvars, mpvars, cr3, ptmem, fork, vas,
                   mapcall>>

(* the top-level entries the loader left, mu_pmap_init has cleared the      *)
(* lower half: the kernel's entry goes through the table in the first frame *)
(* above the usable memory                                                  *)
LoaderPte(i) == BYTE_BITS * PAGESIZE + PTE_P + PTE_RW

MapMarks == {NPTE_LOWER}

MapTables ==
    { [i \in PtIndex |-> IF i \in used THEN LoaderPte(i) ELSE 0] :
        used \in SUBSET MapMarks }

(* the caller's handle was read with mu_pmap_readvas                        *)
MapInit ==
    /\ phase = "run"
    /\ memmap0 \in PmapMaps
    /\ memmap = Booted(memmap0).memmap
    /\ bitmap_base = Booted(memmap0).bitmap_base
    /\ bitmap_size = Booted(memmap0).bitmap_size
    /\ highest_usable = Booted(memmap0).highest_usable
    /\ bitmap = HeapAlloc(memmap0).bitmap
    /\ last_index = 0
    /\ held = <<[base |-> HeapAlloc(memmap0).base, count |-> HeapPages]>>
    /\ usable0 = Cardinality(ClearBits(Booted(memmap0).bitmap, MaxIndex))
    /\ lastop = NoOp
    /\ LockIdle
    /\ MpIdle
    /\ cr3 = PmapBase - PAGESIZE
    /\ \E parent \in MapTables, g \in Garbage :
          ptmem = [f \in Frames |->
                     IF f = cr3 \div PAGESIZE THEN parent
                     ELSE [i \in PtIndex |-> g]]
    /\ fork = NoFork
    /\ vas = [cr3 |-> cr3]
    /\ mapcall \in { [NoMap EXCEPT !.prot = p] : p \in Prots }
    /\ tlb = {}

MapNext ==
    \/ MuPmapMap
    \/ MuPmapMapNoMem
    \/ MuPmapMapInval

SpecMap == MapInit /\ [][MapNext]_vars

(* the permissions mu_process_init asks for                                 *)
VasProts == {{"r", "w"}}

(* the runs with forks, unmaps and the translation cache                    *)
VasInit ==
    /\ phase = "run"
    /\ memmap0 \in PmapMaps
    /\ memmap = Booted(memmap0).memmap
    /\ bitmap_base = Booted(memmap0).bitmap_base
    /\ bitmap_size = Booted(memmap0).bitmap_size
    /\ highest_usable = Booted(memmap0).highest_usable
    /\ bitmap = HeapAlloc(memmap0).bitmap
    /\ last_index = 0
    /\ held = <<[base |-> HeapAlloc(memmap0).base, count |-> HeapPages]>>
    /\ usable0 = Cardinality(ClearBits(Booted(memmap0).bitmap, MaxIndex))
    /\ lastop = NoOp
    /\ LockIdle
    /\ MpIdle
    /\ cr3 = PmapBase - PAGESIZE
    /\ \E parent \in MapTables, g \in Garbage :
          ptmem = [f \in Frames |->
                     IF f = cr3 \div PAGESIZE THEN parent
                     ELSE [i \in PtIndex |-> g]]
    /\ fork = NoFork
    /\ vas \in { [cr3 |-> j] : j \in VasJunk }
    /\ mapcall \in { [NoMap EXCEPT !.prot = p] : p \in VasProts }
    /\ tlb = {}

VasNext ==
    \/ MuPmapForkvas
    \/ MuPmapForkvasNoMem
    \/ MuPmapReadvas
    \/ MuPmapMap
    \/ MuPmapMapNoMem
    \/ MuPmapMapInval
    \/ MuPmapUnmap
    \/ TlbFill

SpecVas == VasInit /\ [][VasNext]_vars

(* STACK_TOP, 0xBFFFFFFF, as its four table indices                         *)
STACK_TOP == <<0, 2, NPTE - 1, NPTE - 1>>

(* mu_process_init after the stack was allocated: mu_pmap_map of the stack  *)
(* through pcb->vas; on an error the stack and pcb->vas.cr3 are freed       *)
ProcessMap(mem, a, s, max_index, v) ==
    The({ IF g.tbl = -1
          THEN [ret |-> "-ENOMEM", stage |-> "map", mem |-> g.mem,
                bitmap |-> vm_phys_free(vm_phys_free(g.bitmap, s.base, 1),
                                        v.cr3, 1),
                cursor |-> g.cursor, forked |-> a.base, stack |-> s.base,
                made |-> g.made, freed |-> <<s.base, v.cr3>>]
          ELSE [ret |-> "0", stage |-> "0",
                mem |-> [g.mem EXCEPT
                            ![g.tbl][pmap_get_index(STACK_TOP, PMAP_PML1)] =
                                BitOr(s.base, pmap_prot_conv({"r", "w"}))],
                bitmap |-> g.bitmap, cursor |-> g.cursor,
                forked |-> a.base, stack |-> s.base, made |-> g.made,
                freed |-> <<>>] :
          g \in {pmap_get_level(mem, s.bitmap, s.cursor, max_index, v.cr3,
                                STACK_TOP, TRUE, PMAP_PML1)} })

(* mu_process_init after the fork: stack_base = vm_phys_alloc(1); when it   *)
(* is 0, pcb->vas.cr3 is freed                                              *)
ProcessStack(mem, a, max_index, v) ==
    The({ IF s.base = 0
          THEN [ret |-> "-ENOMEM", stage |-> "stack", mem |-> mem,
                bitmap |-> vm_phys_free(s.bitmap, v.cr3, 1),
                cursor |-> s.cursor, forked |-> a.base, stack |-> 0,
                made |-> <<>>, freed |-> <<v.cr3>>]
          ELSE ProcessMap(mem, a, s, max_index, v) :
          s \in {vm_phys_alloc(a.bitmap, a.cursor, max_index, 1)} })

(* mu_process_init(process, ip, flags) for a process that is not NULL, on   *)
(* the processor whose top-level table is at root; v is pcb->vas as the     *)
(* caller left it.  mu_pmap_forkvas stores nothing into it.                 *)
mu_process_init(mem, bm, cursor, max_index, root, v) ==
    The({ IF a.base = 0
          THEN [ret |-> "-ENOMEM", stage |-> "fork", mem |-> mem,
                bitmap |-> a.bitmap, cursor |-> a.cursor, forked |-> 0,
                stack |-> 0, made |-> <<>>, freed |-> <<>>]
          ELSE ProcessStack(ForkLoop(mem, a.base \div PAGESIZE,
                                     root \div PAGESIZE),
                            a, max_index, v) :
          a \in {vm_phys_alloc(bm, cursor, max_index, 1)} })

(* one call of mu_process_init that ends in the given stage; what it        *)
(* allocated and did not free stays allocated, the stack of a thread that   *)
(* was made belongs to the thread                                           *)
MuProcessInit(stage) ==
    /\ phase = "run"
    /\ fork.ret = "none"
    /\ \E r \in {mu_process_init(ptmem, bitmap, last_index, MaxIndex, cr3,
                                  vas)} :
          /\ r.stage = stage
          /\ bitmap' = r.bitmap
          /\ last_index' = r.cursor
          /\ ptmem' = r.mem
          /\ fork' = [ret |-> IF r.forked = 0 THEN "-ENOMEM" ELSE "0",
                      paddr |-> r.forked, src |-> ptmem[cr3 \div PAGESIZE],
                      vas0 |-> vas]
          /\ lastop' = [op |-> "process_init", ret |-> r.ret,
                        forked |-> r.forked, stack |-> r.stack,
                        made |-> r.made, freed |-> r.freed,
                        before |-> bitmap]
    /\ UNCHANGED <<phase, memmap0, memmap, bitmap_base, bitmap_size,
                   highest_usable, held, usable0>>
    /\ UNCHANGED <<lockvars, mpvars, cr3, vas, mapcall, tlb>>

(* the calls of mu_process_init, among callers of vm_phys_alloc that take   *)
(* up to 2 * MaxCount frames at once                                        *)
ProcInit == VasInit

ProcNext ==
    \/ MuProcessInit("0")
    \/ MuProcessInit("fork")
    \/ MuProcessInit("stack")
    \/ MuProcessInit("map")
    \/ \E count \in 1..(2 * MaxCount) : Alloc(count)

SpecProc == ProcInit /\ [][ProcNext]_vars

(* the requests a caller passes to lapic_send_ipi                            *)
IpiReqs ==
    { [dest_id |-> d, vector |-> v, delmod |-> m, shorthand |-> h,
       logical_dest |-> 0] :
        d \in ApicIds, v \in {0, AP_BUA_PADDR \div PAGESIZE},
        m \in {0, IPI_DELMOD_INIT, IPI_DELMOD_STARTUP}, h \in 0..3 }

(* the bootstrap processor is about to call lapic_send_ipi with a request   *)
IpiInit ==
    /\ phase = "run"
    /\ memmap0 \in MpMaps
    /\ memmap = Booted(memmap0).memmap
    /\ bitmap_base = Booted(memmap0).bitmap_base
    /\ bitmap_size = Booted(memmap0).bitmap_size
    /\ highest_usable = Booted(memmap0).highest_usable
    /\ bitmap = HeapAlloc(memmap0).bitmap
    /\ last_index = 0
    /\ held = <<[base |-> HeapAlloc(memmap0).base, count |-> HeapPages]>>
    /\ usable0 = Cardinality(ClearBits(Booted(memmap0).bitmap, MaxIndex))
    /\ lastop = NoOp
    /\ LockIdle
    /\ PmapIdle
    /\ has_x2apic \in BOOLEAN
    /\ bsp_id = 0
    /\ madt \in Madts(bsp_id)
    /\ \E req \in IpiReqs :
          bsp = [pc |-> "send", idx |-> 1, arg |-> 0, retval |-> 0,
                 target |-> -1, stack |-> 0, ipi |-> req, k |-> 0,
                 idle |-> 0, pid |-> 0]
    /\ buda = [cr3 |-> 0, rsp |-> 0, lm_entry |-> "", is_booted |-> 0]
    /\ bs = [pml4 |-> 0, pml3 |-> 0, pml2 |-> 0, pml1 |-> 0]
    /\ icr \in IcrBoot
    /\ log = <<>>
    /\ ipicall = NoSend
    /\ ipi_reqs = {}
    /\ signals = {}
    /\ stacks = {}
    /\ ap = [id \in ApicIds |->
                IF id \in Secondaries THEN [ApOff EXCEPT !.pc = "halt"]
                ELSE ApOff]
    /\ ap_count = 0
    /\ aps_up = 0
    /\ cpu_list = [s \in 0..MaxMadt |-> -1]

IpiNext ==
    \/ LapicSendIpi
    \/ LapicSendIpiSelf
    \/ ApicDeliver
    \/ LapicIpiPoll

SpecIpi == IpiInit /\ [][IpiNext]_vars

(* the processor goes on executing lapic_send_ipi; nothing makes the local  *)
(* APIC accept a command                                                    *)
IpiFairness ==
    /\ WF_vars(LapicSendIpi)
    /\ WF_vars(LapicSendIpiSelf)
    /\ WF_vars(LapicIpiPoll)

SpecIpiFair == SpecIpi /\ IpiFairness

\* C21: when mu_pmap_forkvas returns 0 the caller's handle holds the
\* physical address of the table the call allocated and filled; when it
\* returns -ENOMEM the caller's handle is what it was before the call.
C21_ForkDeliversHandle ==
    /\ fork.ret = "0" => vas.cr3 = fork.paddr
    /\ fork.ret = "-ENOMEM" => vas = fork.vas0
(* the entries of the table in frame f that are not zero                    *)
NonZero(mem, f) == { i \in PtIndex : mem[f][i] /= 0 }

\* C22: when mu_pmap_map through the handle that was given to a
\* mu_pmap_forkvas which returned 0 returns 0 for a lower-half address the
\* parent did not translate, the parent's top-level table is afterwards entry
\* for entry what it was at the fork, and the parent still does not
\* translate the address.
C22_MapInChildLeavesParent ==
    [][(/\ fork.ret = "0"
        /\ mapcall'.n = mapcall.n + 1
        /\ mapcall'.op = "map"
        /\ mapcall'.ret = "0"
        /\ mapcall'.va[1] < NPTE_LOWER
        /\ mapcall'.was = 0)
           => /\ ptmem'[cr3 \div PAGESIZE] = fork.src
              /\ Walk(ptmem', cr3, mapcall'.va) = 0]_vars

\* C23: after mu_pmap_map returned 0, the walk of the four levels from the
\* handle's table with the indices of bits 39-47, 30-38, 21-29 and 12-20 of
\* va ends on the leaf entry pa | pmap_prot_conv(prot), and every table the
\* call allocated holds nothing but the one entry the call wrote into it.
C23_MapReachesLeaf ==
    (mapcall.op = "map" /\ mapcall.ret = "0")
        => /\ Walk(ptmem, mapcall.root, mapcall.va)
                = BitOr(mapcall.pa, pmap_prot_conv(mapcall.prot))
           /\ \A k \in 1..Len(mapcall.made) :
                Cardinality(NonZero(ptmem, mapcall.made[k] \div PAGESIZE))
                    <= 1


(* the entry that links the table at base into the table above it          *)
LinkTo(base) == BitOr(base, PTE_P + PTE_RW + PTE_US)

MadeFrames == { mapcall.made[k] \div PAGESIZE : k \in 1..Len(mapcall.made) }

\* C24: when mu_pmap_map returns -ENOMEM, memory differs from what it was
\* before the call only in the tables the call allocated and in entries that
\* link one of them (no leaf entry was written), and every table the call
\* allocated is still marked allocated, holds nothing but a link to the
\* next, and is linked from the handle's table or from the table allocated
\* before it.
C24_NoMemKeepsTables ==
    (mapcall.op = "map" /\ mapcall.ret = "-ENOMEM")
        => /\ \A f \in Frames \ MadeFrames :
                ptmem[f] /= mapcall.before[f]
                    => \A i \in PtIndex :
                          ptmem[f][i] /= mapcall.before[f][i]
                              => \E m \in MadeFrames :
                                    ptmem[f][i] = LinkTo(m * PAGESIZE)
           /\ \A k \in 1..Len(mapcall.made) :
                LET f == mapcall.made[k] \div PAGESIZE
                    up == IF k = 1 THEN mapcall.root \div PAGESIZE
                          ELSE mapcall.made[k - 1] \div PAGESIZE
                IN  /\ bitmap[f] = 1
                    /\ \E i \in PtIndex :
                          ptmem[up][i] = LinkTo(mapcall.made[k])
                    /\ \A i \in NonZero(ptmem, f) :
                          /\ k < Len(mapcall.made)
                          /\ ptmem[f][i] = LinkTo(mapcall.made[k + 1])

C24_Witness ==
    /\ mapcall.op = "map"
    /\ mapcall.ret = "-ENOMEM"
    /\ Len(mapcall.made) >= 1

(* the leaf entry the last mu_pmap_map wrote                                *)
Leaf == ptmem[mapcall.tbl][pmap_get_index(mapcall.va, PMAP_PML1)]

\* C25: the leaf entry mu_pmap_map wrote for a permission set always has
\* the present bit, has the no-execute bit exactly when the set lacks
\* execute, the writable bit exactly when it has write, and the user bit
\* exactly when it has user.
C25_ProtConv ==
    (mapcall.op = "map" /\ mapcall.ret = "0")
        => /\ ISSET(Leaf, PTE_P)
           /\ ISSET(Leaf, PTE_NX) <=> ~("x" \in mapcall.prot)
           /\ ISSET(Leaf, PTE_RW) <=> "w" \in mapcall.prot
           /\ ISSET(Leaf, PTE_US) <=> "u" \in mapcall.prot

C25_Witness ==
    /\ mapcall.op = "map"
    /\ mapcall.ret = "0"
    /\ mapcall.prot = {"r", "x"}
    /\ ~ISSET(Leaf, PTE_NX)
    /\ ~ISSET(Leaf, PTE_RW)


\* C26: a mu_pmap_map that returns 0 for the running address space leaves
\* va readable with the frame pa, whatever the translation cache held for va
\* before, and a mu_pmap_unmap that returns 0 for the running address space
\* leaves no cached translation for va.
C26_CacheFollowsMap ==
    [][(/\ mapcall'.n = mapcall.n + 1
        /\ mapcall'.ret = "0"
        /\ mapcall'.root = cr3)
           => /\ mapcall'.op = "map"
                   => /\ Read(tlb', ptmem', mapcall'.va) /= 0
                      /\ PteAddr(Read(tlb', ptmem', mapcall'.va))
                            = mapcall'.pa
              /\ mapcall'.op = "unmap"
                   => ~(\E t \in tlb' : t.va = mapcall'.va)]_vars


\* C27: when lapic_send_ipi is called in x2APIC mode with the self
\* shorthand, the command register is left as it was, the one register
\* access of the call is the write of the self IPI register, the processor
\* gets the requested vector, and the call returns 0.
C27_SelfShorthandX2 ==
    [][(/\ has_x2apic
        /\ bsp.pc = "send"
        /\ bsp.ipi.shorthand = IPI_SHAND_SELF
        /\ bsp'.pc /= "send")
           => /\ icr' = icr
              /\ ipicall' = [acc |-> <<Io("write", "SELF_IPI")>>,
                             ret |-> "0"]
              /\ [to |-> {bsp_id}, delmod |-> 0,
                  vector |-> bsp.ipi.vector] \in signals']_vars

C27_Witness ==
    /\ has_x2apic
    /\ bsp.ipi.shorthand = IPI_SHAND_SELF
    /\ bsp.pc = "sleep"
    /\ ipicall.ret = "0"

(* where the last lapic_send_ipi made the access                            *)
Positions(op, reg) ==
    { k \in 1..Len(ipicall.acc) : ipicall.acc[k] = Io(op, reg) }

C29_SendEnds ==
    (bsp.pc = "poll") ~> (ipicall.ret = "0" \/ phase = "panic")

\* C30: the identifier lapic_read_id gave cpu_start_aps is the identifier
\* the controller of the bootstrap processor holds, in both modes.
C30_ReadIdFull ==
    bsp.pc = "madt" => bsp.arg = bsp_id


(* the processors inside mu_spinlock_acq past the cli, in the locked body,  *)
(* or inside mu_spinlock_rel                                                *)
PastCli == { p \in Cpus : cpu[p].pc \notin {"idle", "acq"} }

\* C31: no step of a processor inside mu_spinlock_acq, the locked body or
\* mu_spinlock_rel called without SPINLOCK_INTTOG, the return included,
\* changes its interrupt-enable state; called with SPINLOCK_INTTOG it has
\* interrupts disabled from before the first xchg on the lock word until
\* after the xchg that releases it, and only the step after that release
\* enables them.
C31_InterruptToggle ==
    [][\A p \in Cpus :
          /\ (cpu[p].pc /= "idle" /\ ~cpu[p].inttog)
                => /\ cpu_if[p] = cpu[p].if0
                   /\ cpu_if'[p] = cpu_if[p]
          /\ (p \in PastCli /\ cpu[p].inttog) => ~cpu_if[p]
          /\ (cpu[p].inttog /\ cpu_if'[p] /\ ~cpu_if[p])
                => cpu[p].pc = "sti"]_vars

(* a processor that came with interrupts enabled has released mount_lock    *)
(* and not yet executed sti, another is in vm_phys_alloc's locked body with *)
(* interrupts enabled                                                       *)
C31_Witness ==
    \E p \in Cpus : \E q \in Cpus :
        /\ cpu[p].inttog
        /\ cpu[p].if0
        /\ cpu[p].pc = "sti"
        /\ ~cpu[q].inttog
        /\ cpu[q].pc = "first"
        /\ cpu_if[q]

\* C38: when mu_spinlock_rel called with SPINLOCK_INTTOG returns, the
\* processor's interrupt-enable state is the one it had before the matching
\* mu_spinlock_acq: interrupts that were disabled before stay disabled.
C38_ReleaseRestores ==
    [][\A p \in Cpus :
          (cpu[p].pc = "sti" /\ cpu[p].inttog /\ cpu'[p].pc = "idle")
              => cpu_if'[p] = cpu[p].if0]_vars


\* C32: when vm_phys_alloc has returned the base of count frames starting at
\* frame s, last_index is s + count.
C32_CursorPastRun ==
    (lastop.op = "alloc" /\ lastop.base /= 0)
        => last_index = (lastop.base \div PAGESIZE) + lastop.count

\* C36: when vm_phys_alloc has returned 0 the bitmap is the one before the
\* call; in particular the bit of frame 0 was not set by that call.
C36_FailureKeepsBitmap ==
    (lastop.op = "alloc" /\ lastop.base = 0) => bitmap = lastop.before

\* C37: vm_phys_alloc sets no bit and returns no frame at or beyond
\* highest_usable / PAGESIZE, also when the scan ends at max_index with
\* fewer than count clear bits found.
C37_WithinBitmap ==
    lastop.op = "alloc" =>
        /\ \A f \in Frames :
               (bitmap[f] = 1 /\ lastop.before[f] = 0) => f < MaxIndex
        /\ lastop.base /= 0 =>
               (lastop.base \div PAGESIZE) + lastop.count <= MaxIndex

\* C33: the command a lapic_send_ipi call without the self shorthand writes
\* has the destination, vector, delivery mode, destination mode and shorthand
\* of the request, whatever the register held before; in xAPIC mode the
\* destination written is the request's low 8 bits.
C33_CommandIsRequest ==
    [][(/\ bsp.pc = "send"
        /\ bsp'.pc \in {"poll", "sleep"}
        /\ bsp.ipi.shorthand /= IPI_SHAND_SELF)
           => /\ icr'.dest = IF has_x2apic THEN bsp.ipi.dest_id
                             ELSE bsp.ipi.dest_id % 256
              /\ icr'.vector = bsp.ipi.vector
              /\ icr'.delmod = bsp.ipi.delmod
              /\ icr'.logical = bsp.ipi.logical_dest
              /\ icr'.shorthand = bsp.ipi.shorthand]_vars

\* C34: acpi_read_madt goes past every entry of another type without a
\* callback and without stopping, also before the first entry of the
\* requested type: it returns early only at an entry of the requested type
\* whose callback returned a value that is not negative.
C34_OnlyCallbackStops ==
    [][(bsp.pc = "check" /\ bsp'.pc /= "madt")
           => IsLapic(madt[bsp.idx])]_vars

\* C35: when sched_enqueue_proc has returned, the thread is the last of the
\* ready queue of the processor the call returned and every other ready
\* queue is what it was, for a thread bound to a processor as for one placed
\* by its pid.
C35_EnqueuedOnReturned ==
    bsp.pc = "enqueued" =>
        \A id \in DOMAIN ap :
            ap[id].pqueue = IF id = bsp.core
                            THEN Append(bsp.was[id].pqueue, bsp.proc.pid)
                            ELSE bsp.was[id].pqueue

\* C39: from the moment cpu_start_aps has stored the bootstrap processor's
\* record, also while secondaries are inside cpu_lm_entry, cpu_get(i) is a
\* processor record for every i from 0 to aps_up and NULL for every larger i.
C39_CpuGetTotal ==
    bsp.pc /= "boot" =>
        \A i \in DOMAIN cpu_list :
            (cpu_get(cpu_list, aps_up, i) /= -1) <=> (i <= aps_up)

(* the frames of the addresses in a sequence                                *)
FramesOf(bases) == { bases[k] \div PAGESIZE : k \in DOMAIN bases }

\* C40: when mu_process_init has failed after the fork, the frames it passed
\* to vm_phys_free are the frame of the top-level table it forked and, when
\* it had allocated one, the frame of the stack, and no other frame.
C40_ReleasesOwnFrames ==
    (lastop.op = "process_init" /\ lastop.ret /= "0" /\ lastop.forked /= 0)
        => FramesOf(lastop.freed)
               = FramesOf(<<lastop.forked>>)
                     \cup (IF lastop.stack = 0 THEN {}
                           ELSE FramesOf(<<lastop.stack>>))

====
